---- MODULE Spec2Model ----
(***************************************************************************)
(* A model of the turbo-tasks backend (turbo-tasks-backend/src/backend).   *)
(*                                                                         *)
(* Part I  (SpecBarrier): the snapshot barrier of TurboTasksBackendInner:  *)
(*   start_operation, operation_suspend_point, OperationGuard::drop and    *)
(*   snapshot(), at the granularity of the atomic operations on            *)
(*   in_progress_operations and of the snapshot_request mutex and its two  *)
(*   condition variables.                                                  *)
(* Part II (Spec): the per-task storage and the read path.                 *)
(* Part III (SpecCreate): the task cache and the id factories behind       *)
(*   get_or_create_persistent_task and get_or_create_transient_task.       *)
(***************************************************************************)
EXTENDS Integers, FiniteSets, Sequences, TLC

\* ------------------------------------------------------------------------
\* Bounds
\* ------------------------------------------------------------------------
\* Worker threads that run operations.
NumWorkers == 2
\* Operations started over a run.
MaxOps == 2
\* Loop states an operation goes through before Done.
MaxSteps == 1
\* Snapshot attempts over a run.
MaxSnapshots == 2
\* Width of usize in the model (the code's is 64).
UsizeBits == 4

RECURSIVE Pow2(_)
Pow2(n) == IF n = 0 THEN 1 ELSE 2 * Pow2(n - 1)

Usize == Pow2(UsizeBits)
\* const SNAPSHOT_REQUESTED_BIT: usize = 1 << (usize::BITS - 1)
SNAPSHOT_REQUESTED_BIT == Pow2(UsizeBits - 1)

\* Wrapping arithmetic of AtomicUsize::fetch_add / fetch_sub.
Wrap(x) == x % Usize
\* (value & SNAPSHOT_REQUESTED_BIT) != 0
HasBit(v) == (v \div SNAPSHOT_REQUESTED_BIT) % 2 = 1

Workers == 1..NumWorkers
\* The thread that runs snapshot() (spawn_blocking in run_backend_job).
Coordinator == 0
NoOwner == -1

\* The three sharded logs of the backend.
LogKinds == {"task_cache", "meta", "data"}
\* An operation on transient tasks appends nothing to the logs; an operation
\* on persistent tasks appends a CachedDataUpdate for each item it changes:
\* XxxOperation::run for an item of the task it was called for (the meta log
\* here, as for the Child item of ConnectChildOperation::run), a state of the
\* loop for an item of another task (the data log here).
EmptyLogs == [k \in LogKinds |-> {}]

\* The terminal state of every operation state machine.
Done == MaxSteps + 1

VARIABLES
    \* ---- Part I: snapshot barrier ----
    in_progress_operations, \* AtomicUsize: count + SNAPSHOT_REQUESTED_BIT
    snapshot_requested,     \* SnapshotRequest::snapshot_requested
    suspended_operations,   \* SnapshotRequest::suspended_operations
    lock_owner,             \* owner of the snapshot_request mutex
    pc,                     \* position of each worker thread
    op,                     \* the operation value each worker executes
    sn_pc,                  \* position of the coordinator in snapshot()
    sn_suspended,           \* snapshot(): local suspended_operations
    sn_logs,                \* snapshot(): the three taken logs
    sn_result,              \* what the last snapshot() returned
    logs,                   \* persisted_{task_cache,storage_meta,storage_data}_log
    persisted_records,      \* backing storage: log records committed
    persisted_operations,   \* backing storage: META_KEY_OPERATIONS
    written,                \* history: every log record ever appended
    ops_started,            \* history: operations started so far
    snapshots               \* history: snapshot attempts so far

barrier_vars == <<in_progress_operations, snapshot_requested, suspended_operations,
                  lock_owner, pc, op, sn_pc, sn_suspended, sn_logs, sn_result,
                  logs, persisted_records, persisted_operations, written,
                  ops_started, snapshots>>

\* ---- Part II: task storage (declared here, defined in Part II) ----
VARIABLES
    storage,                \* Storage: the items of every task
    th,                     \* the locals of each thread and each task execution
    scheduled,              \* turbo_tasks.schedule(task) calls not yet dequeued
    events,                 \* history: Event objects created for each task
    calls,                  \* history: backend calls started so far
    budget                  \* the backend calls the run is allowed to make

task_vars == <<storage, th, scheduled, events, calls, budget>>

\* ---- Part III: task creation (declared here, defined in Part III) ----
VARIABLES
    task_cache,             \* BiMap<Arc<CachedTaskType>, TaskId>
    id_factory,             \* persisted_ / transient_task_id_factory
    task_cache_log,         \* persisted_task_cache_log
    child_edges,            \* Child items added by connect_child
    cr,                     \* the locals of each thread creating tasks
    returned,               \* history: <<task type, TaskId>> of every return
    create_calls            \* history: get_or_create calls started so far

create_vars == <<task_cache, id_factory, task_cache_log, child_edges, cr,
                 returned, create_calls>>

\* Part IV: the backing store across sessions (lmdb_backing_storage.rs).
VARIABLES
    meta_session_id,  \* infra_db[META_KEY_SESSION_ID]; NoSessionId = key absent
    session_running,  \* a backend is constructed on the store (a session runs)
    sessions          \* the sessions so far, oldest first: the SessionId of each
                      \* (TurboTasksBackendInner.session_id), whether its read
                      \* of the stored id succeeded, whether it saved a snapshot

session_vars == <<meta_session_id, session_running, sessions>>

\* Part V: the startup cache layer over the database (database/startup_cache.rs).
VARIABLES
    database,      \* the wrapped database: key -> value, NoValue = no entry
    batch,         \* the open write batch: key -> value, Deleted, NoValue = untouched
    fresh_db,      \* StartupCacheLayer.fresh_db
    cache_size,    \* StartupCacheLayer.cache_size
    startup_cache, \* StartupCacheLayer.cache: key -> Some(value), Deleted (None),
                   \* NoValue = no entry
    restored_map,  \* StartupCacheLayer.restored_map: key -> value, NoValue
    cache_file     \* the records of the file at path: key -> value, NoValue

cache_vars == <<database, batch, fresh_db, cache_size, startup_cache, restored_map,
                cache_file>>

\* The transient tasks of the backend (backend/mod.rs).
VARIABLES
    transient_tasks  \* TurboTasksBackendInner.transient_tasks: per task "None"
                     \* (no entry), "Root", "Once" (TransientTask::Once holding
                     \* its future) or "Taken" (Once, the future was taken)

\* Part VI: the task data of the backing store (lmdb_backing_storage.rs) and
\* the logs of the updates made since the logs were last taken.
VARIABLES
    task_items,             \* the persistent items of each task in memory,
                            \* per category: key -> value, NoItem = no item
    task_db,                \* meta_db and data_db: per category and task the
                            \* stored item set, key -> value, NoItem = no item
    persisted_storage_log,  \* persisted_storage_meta_log and _data_log: per
                            \* category and shard the CachedDataUpdate records
    put_tasks,              \* the <<category, task>> put by the last save_snapshot
    save_calls              \* updates and snapshots so far, result of the last

save_vars == <<task_items, task_db, persisted_storage_log, put_tasks, save_calls>>

aux_vars == <<session_vars, cache_vars, transient_tasks, save_vars>>

vars == <<barrier_vars, task_vars, create_vars, aux_vars>>

NoOp == [id |-> 0, state |-> 0, persistent |-> FALSE]

InitBarrier ==
    /\ in_progress_operations = 0
    /\ snapshot_requested = FALSE
    /\ suspended_operations = {}
    /\ lock_owner = NoOwner
    /\ pc = [w \in Workers |-> "idle"]
    /\ op = [w \in Workers |-> NoOp]
    /\ sn_pc = "idle"
    /\ sn_suspended = {}
    /\ sn_logs = EmptyLogs
    /\ sn_result = "not_run"
    /\ logs = EmptyLogs
    /\ persisted_records = {}
    /\ persisted_operations = {}
    /\ written = {}
    /\ ops_started = 0
    /\ snapshots = 0

\* ------------------------------------------------------------------------
\* Condition variables (parking_lot::Condvar: no spurious wakeups; a
\* notification reaches only the threads parked at that moment).
\* ------------------------------------------------------------------------
\* operations_suspended.notify_all() when `value` == SNAPSHOT_REQUESTED_BIT.
NotifyOperationsSuspended(value, cur_sn_pc) ==
    IF value = SNAPSHOT_REQUESTED_BIT /\ cur_sn_pc = "wait_parked"
    THEN "wait_woken"
    ELSE cur_sn_pc

\* snapshot_completed.notify_all()
NotifySnapshotCompleted(cur_pc) ==
    [w \in Workers |->
        IF cur_pc[w] = "so_parked" THEN "so_woken"
        ELSE IF cur_pc[w] = "sp_parked" THEN "sp_woken"
        ELSE cur_pc[w]]

\* ChunkedVec::push on the shard of a log.
Push(cur_logs, kind, rec) ==
    IF kind = "none" THEN cur_logs
    ELSE [cur_logs EXCEPT ![kind] = @ \cup {rec}]

shards_empty(shards) == shards = {}

\* ------------------------------------------------------------------------
\* Worker threads: start_operation
\*
\* A thread holding the snapshot_request mutex runs up to the point where it
\* parks or releases the mutex in one step: in between it only touches state
\* that the mutex guards and the counter, and no other thread can read the
\* guarded state, park or un-park meanwhile.
\* ------------------------------------------------------------------------
sn_unchanged == UNCHANGED <<sn_suspended, sn_logs, sn_result, persisted_records,
                            persisted_operations, snapshots, task_vars,
                            create_vars, aux_vars>>

\* start_operation: let fetch_add = in_progress_operations.fetch_add(1);
\* if (fetch_add & SNAPSHOT_REQUESTED_BIT) != 0 { .. }
start_operation_fetch_add(w) ==
    /\ pc[w] = "idle"
    /\ ops_started < MaxOps
    /\ ops_started' = ops_started + 1
    /\ \E persistent \in BOOLEAN :
        op' = [op EXCEPT ![w] = [id |-> ops_started + 1, state |-> 0,
                                 persistent |-> persistent]]
    /\ in_progress_operations' = Wrap(in_progress_operations + 1)
    /\ pc' = [pc EXCEPT ![w] =
                IF HasBit(in_progress_operations) THEN "so_lock" ELSE "run"]
    /\ UNCHANGED <<snapshot_requested, suspended_operations, lock_owner, sn_pc,
                   logs, written>>
    /\ sn_unchanged

\* get_or_create_persistent_task on a cache miss: push (task_type, task_id) to
\* persisted_task_cache_log, then connect_child, whose ExecuteContext starts
\* the operation. The push is outside the operation; it and the fetch_add are
\* one step here: only the coordinator's take() reads the log, and take()
\* neither reads nor writes the counter.
get_or_create_persistent_task(w) ==
    /\ pc[w] = "idle"
    /\ ops_started < MaxOps
    /\ ops_started' = ops_started + 1
    /\ LET rec == <<ops_started + 1, "task_cache", 0>> IN
        /\ logs' = Push(logs, "task_cache", rec)
        /\ written' = written \cup {rec}
    /\ op' = [op EXCEPT ![w] = [id |-> ops_started + 1, state |-> 0,
                                persistent |-> TRUE]]
    /\ in_progress_operations' = Wrap(in_progress_operations + 1)
    /\ pc' = [pc EXCEPT ![w] =
                IF HasBit(in_progress_operations) THEN "so_lock" ELSE "run"]
    /\ UNCHANGED <<snapshot_requested, suspended_operations, lock_owner, sn_pc>>
    /\ sn_unchanged

\* start_operation: snapshot_request.lock(); if snapshot_requested {
\*   value = fetch_sub(1) - 1; if value == SNAPSHOT_REQUESTED_BIT
\*   { operations_suspended.notify_all() }; snapshot_completed.wait_while(..)
start_operation_lock(w) ==
    /\ pc[w] = "so_lock"
    /\ lock_owner = NoOwner
    /\ IF snapshot_requested
       THEN /\ in_progress_operations' = Wrap(in_progress_operations - 1)
            /\ sn_pc' = NotifyOperationsSuspended(in_progress_operations', sn_pc)
            /\ pc' = [pc EXCEPT ![w] = "so_parked"]
       ELSE /\ pc' = [pc EXCEPT ![w] = "run"]
            /\ UNCHANGED <<in_progress_operations, sn_pc>>
    /\ UNCHANGED <<snapshot_requested, suspended_operations, lock_owner, op, logs,
                   written, ops_started>>
    /\ sn_unchanged

\* start_operation: a notified waiter re-acquires the mutex, re-checks
\* snapshot_requested, and when it is false: fetch_add(1), guard dropped
start_operation_wake(w) ==
    /\ pc[w] = "so_woken"
    /\ lock_owner = NoOwner
    /\ IF snapshot_requested
       THEN /\ pc' = [pc EXCEPT ![w] = "so_parked"]
            /\ UNCHANGED in_progress_operations
       ELSE /\ in_progress_operations' = Wrap(in_progress_operations + 1)
            /\ pc' = [pc EXCEPT ![w] = "run"]
    /\ UNCHANGED <<snapshot_requested, suspended_operations, lock_owner, op, sn_pc,
                   logs, written, ops_started>>
    /\ sn_unchanged

\* ------------------------------------------------------------------------
\* Worker threads: the operation (Operation::execute loops: suspend point,
\* then one state of the state machine)
\* ------------------------------------------------------------------------
\* XxxOperation::run: the work done before execute() (ConnectChildOperation::run
\* adds the Child item, UpdateOutputOperation::run stores the output, ...).
operation_run(w) ==
    /\ pc[w] = "run"
    /\ LET rec == <<op[w].id, "meta", 0>>
           kind == IF op[w].persistent THEN "meta" ELSE "none" IN
        /\ logs' = Push(logs, kind, rec)
        /\ written' = IF kind = "none" THEN written ELSE written \cup {rec}
    /\ op' = [op EXCEPT ![w].state = 1]
    /\ pc' = [pc EXCEPT ![w] = "sp_check"]
    /\ UNCHANGED <<in_progress_operations, snapshot_requested, suspended_operations,
                   lock_owner, sn_pc, ops_started>>
    /\ sn_unchanged

\* suspending_requested(): load(in_progress_operations) & SNAPSHOT_REQUESTED_BIT
suspending_requested == HasBit(in_progress_operations)

\* operation_suspend_point: if self.suspending_requested()
operation_suspend_point_check(w) ==
    /\ pc[w] = "sp_check"
    /\ pc' = [pc EXCEPT ![w] = IF suspending_requested THEN "sp_lock" ELSE "step"]
    /\ UNCHANGED <<in_progress_operations, snapshot_requested, suspended_operations,
                   lock_owner, op, sn_pc, logs, written, ops_started>>
    /\ sn_unchanged

\* operation_suspend_point: snapshot_request.lock(); if snapshot_requested {
\*   suspended_operations.insert(operation); value = fetch_sub(1) - 1;
\*   if value == SNAPSHOT_REQUESTED_BIT { operations_suspended.notify_all() };
\*   snapshot_completed.wait_while(..)
operation_suspend_point_lock(w) ==
    /\ pc[w] = "sp_lock"
    /\ lock_owner = NoOwner
    /\ IF snapshot_requested
       THEN /\ suspended_operations' = suspended_operations \cup {op[w]}
            /\ in_progress_operations' = Wrap(in_progress_operations - 1)
            /\ sn_pc' = NotifyOperationsSuspended(in_progress_operations', sn_pc)
            /\ pc' = [pc EXCEPT ![w] = "sp_parked"]
       ELSE /\ pc' = [pc EXCEPT ![w] = "step"]
            /\ UNCHANGED <<suspended_operations, in_progress_operations, sn_pc>>
    /\ UNCHANGED <<snapshot_requested, lock_owner, op, logs, written, ops_started>>
    /\ sn_unchanged

\* operation_suspend_point: a notified waiter re-acquires the mutex, re-checks
\* snapshot_requested, and when it is false: fetch_add(1);
\* suspended_operations.remove(operation)
operation_suspend_point_wake(w) ==
    /\ pc[w] = "sp_woken"
    /\ lock_owner = NoOwner
    /\ IF snapshot_requested
       THEN /\ pc' = [pc EXCEPT ![w] = "sp_parked"]
            /\ UNCHANGED <<in_progress_operations, suspended_operations>>
       ELSE /\ in_progress_operations' = Wrap(in_progress_operations + 1)
            /\ suspended_operations' = suspended_operations \ {op[w]}
            /\ pc' = [pc EXCEPT ![w] = "step"]
    /\ UNCHANGED <<snapshot_requested, lock_owner, op, sn_pc, logs, written,
                   ops_started>>
    /\ sn_unchanged

\* One state of the operation's state machine; Done => return.
operation_step(w) ==
    /\ pc[w] = "step"
    /\ IF op[w].state = Done
       THEN /\ pc' = [pc EXCEPT ![w] = "drop"]
            /\ UNCHANGED <<op, logs, written>>
       ELSE /\ LET rec == <<op[w].id, "data", op[w].state>>
                   kind == IF op[w].persistent THEN "data" ELSE "none" IN
                /\ logs' = Push(logs, kind, rec)
                /\ written' = IF kind = "none" THEN written ELSE written \cup {rec}
            /\ op' = [op EXCEPT ![w].state = @ + 1]
            /\ pc' = [pc EXCEPT ![w] = "sp_check"]
    /\ UNCHANGED <<in_progress_operations, snapshot_requested, suspended_operations,
                   lock_owner, sn_pc, ops_started>>
    /\ sn_unchanged

\* impl Drop for OperationGuard: fetch_sub(1); notify operations_suspended when
\* fetch_sub - 1 == SNAPSHOT_REQUESTED_BIT (the mutex is not held)
OperationGuard_drop(w) ==
    /\ pc[w] = "drop"
    /\ in_progress_operations' = Wrap(in_progress_operations - 1)
    /\ sn_pc' = NotifyOperationsSuspended(in_progress_operations', sn_pc)
    /\ pc' = [pc EXCEPT ![w] = "idle"]
    /\ op' = [op EXCEPT ![w] = NoOp]
    /\ UNCHANGED <<snapshot_requested, suspended_operations, lock_owner, logs,
                   written, ops_started>>
    /\ sn_unchanged

\* ------------------------------------------------------------------------
\* The coordinator: snapshot()
\* ------------------------------------------------------------------------
worker_unchanged == UNCHANGED <<op, ops_started, written, task_vars, create_vars,
                                aux_vars>>

\* A variant that gives the mutex up between setting snapshot_requested and
\* the fetch_or.
snapshot_request_unlocked(max) ==
    /\ sn_pc = "idle"
    /\ snapshots < max
    /\ lock_owner = NoOwner
    /\ snapshot_requested' = TRUE
    /\ snapshots' = snapshots + 1
    /\ sn_pc' = "fetch_or"
    /\ sn_result' = "running"
    /\ UNCHANGED <<in_progress_operations, suspended_operations, pc, sn_suspended,
                   sn_logs, logs, persisted_records, persisted_operations,
                   lock_owner>>
    /\ worker_unchanged

\* snapshot: snapshot_request.lock(); snapshot_requested = true
snapshot_request(max) ==
    /\ sn_pc = "idle"
    /\ snapshots < max
    /\ lock_owner = NoOwner
    /\ lock_owner' = Coordinator
    /\ snapshot_requested' = TRUE
    /\ snapshots' = snapshots + 1
    /\ sn_pc' = "fetch_or"
    /\ sn_result' = "running"
    /\ UNCHANGED <<in_progress_operations, suspended_operations, pc, sn_suspended,
                   sn_logs, logs, persisted_records, persisted_operations>>
    /\ worker_unchanged

\* snapshot: active_operations = fetch_or(SNAPSHOT_REQUESTED_BIT);
\* if active_operations != 0 { operations_suspended.wait_while(..) }
snapshot_fetch_or ==
    /\ sn_pc = "fetch_or"
    /\ lock_owner = Coordinator
    /\ in_progress_operations' =
          IF HasBit(in_progress_operations) THEN in_progress_operations
          ELSE Wrap(in_progress_operations + SNAPSHOT_REQUESTED_BIT)
    /\ sn_pc' = IF in_progress_operations # 0 THEN "wait_check" ELSE "collect"
    /\ UNCHANGED <<snapshot_requested, suspended_operations, lock_owner, pc,
                   sn_suspended, sn_logs, logs, sn_result, persisted_records,
                   persisted_operations, snapshots>>
    /\ worker_unchanged

\* A wait that ends as soon as the request bit is set, whatever the count.
operations_suspended_reached_bit_only(value) == HasBit(value)

\* The condition the coordinator waits for:
\* in_progress_operations.load() == SNAPSHOT_REQUESTED_BIT
operations_suspended_reached(value) == value = SNAPSHOT_REQUESTED_BIT

\* snapshot: wait_while evaluates its condition (the mutex is held)
snapshot_wait_check ==
    /\ sn_pc = "wait_check"
    /\ lock_owner = Coordinator
    /\ sn_pc' = IF operations_suspended_reached(in_progress_operations)
                THEN "collect" ELSE "wait_park"
    /\ UNCHANGED <<in_progress_operations, snapshot_requested, suspended_operations,
                   lock_owner, pc, sn_suspended, sn_logs, logs, sn_result, persisted_records,
                   persisted_operations, snapshots>>
    /\ worker_unchanged

\* snapshot: wait_while parks the coordinator and releases the mutex
snapshot_wait_park ==
    /\ sn_pc = "wait_park"
    /\ lock_owner = Coordinator
    /\ sn_pc' = "wait_parked"
    /\ lock_owner' = NoOwner
    /\ UNCHANGED <<in_progress_operations, snapshot_requested, suspended_operations,
                   pc, sn_suspended, sn_logs, logs, sn_result, persisted_records,
                   persisted_operations, snapshots>>
    /\ worker_unchanged

\* snapshot: a notified coordinator re-acquires the mutex and re-checks
snapshot_wake ==
    /\ sn_pc = "wait_woken"
    /\ lock_owner = NoOwner
    /\ lock_owner' = Coordinator
    /\ sn_pc' = "wait_check"
    /\ UNCHANGED <<in_progress_operations, snapshot_requested, suspended_operations,
                   pc, sn_suspended, sn_logs, logs, sn_result, persisted_records,
                   persisted_operations, snapshots>>
    /\ worker_unchanged

\* snapshot: suspended_operations = snapshot_request.suspended_operations
\* .iter().collect(); drop(snapshot_request)
snapshot_collect ==
    /\ sn_pc = "collect"
    /\ lock_owner = Coordinator
    /\ sn_suspended' = suspended_operations
    /\ lock_owner' = NoOwner
    /\ sn_pc' = "take"
    /\ UNCHANGED <<in_progress_operations, snapshot_requested, suspended_operations,
                   pc, sn_logs, logs, sn_result, persisted_records,
                   persisted_operations, snapshots>>
    /\ worker_unchanged

\* snapshot: persisted_storage_meta_log.take(), persisted_storage_data_log
\* .take(), persisted_task_cache_log.take()
snapshot_take ==
    /\ sn_pc = "take"
    /\ sn_logs' = logs
    /\ logs' = EmptyLogs
    /\ sn_pc' = "clear"
    /\ UNCHANGED <<in_progress_operations, snapshot_requested, suspended_operations,
                   lock_owner, pc, sn_suspended, sn_result, persisted_records,
                   persisted_operations, snapshots>>
    /\ worker_unchanged

\* snapshot: snapshot_request.lock(); snapshot_requested = false;
\* fetch_sub(SNAPSHOT_REQUESTED_BIT); snapshot_completed.notify_all();
\* drop(snapshot_request)
snapshot_clear ==
    /\ sn_pc = "clear"
    /\ lock_owner = NoOwner
    /\ snapshot_requested' = FALSE
    /\ in_progress_operations' = Wrap(in_progress_operations - SNAPSHOT_REQUESTED_BIT)
    /\ pc' = NotifySnapshotCompleted(pc)
    /\ sn_pc' = "save"
    /\ UNCHANGED <<suspended_operations, lock_owner, sn_suspended, sn_logs, logs,
                   sn_result, persisted_records, persisted_operations, snapshots>>
    /\ worker_unchanged

AllRecords(ls) == UNION {ls[k] : k \in LogKinds}

\* snapshot: if any log is non-empty, backing_storage.save_snapshot(session_id,
\* suspended_operations, task_cache_log, meta_log, data_log); Err => return None.
\* The taken logs are moved into the call and are gone when it returns.
\* LmdbBackingStorage::save_snapshot commits the records and overwrites
\* META_KEY_OPERATIONS in one transaction.
snapshot_save ==
    /\ sn_pc = "save"
    /\ IF \A k \in LogKinds : shards_empty(sn_logs[k])
       THEN /\ sn_result' = "Some_false"
            /\ UNCHANGED <<persisted_records, persisted_operations>>
       ELSE \/ /\ persisted_records' = persisted_records \cup AllRecords(sn_logs)
               /\ persisted_operations' = sn_suspended
               /\ sn_result' = "Some_true"
            \/ /\ sn_result' = "None"
               /\ UNCHANGED <<persisted_records, persisted_operations>>
    /\ sn_logs' = EmptyLogs
    /\ sn_suspended' = {}
    /\ sn_pc' = "idle"
    /\ UNCHANGED <<in_progress_operations, snapshot_requested, suspended_operations,
                   lock_owner, pc, logs, snapshots>>
    /\ worker_unchanged

NextBarrier ==
    \/ \E w \in Workers : get_or_create_persistent_task(w)
    \/ \E w \in Workers : start_operation_fetch_add(w)
    \/ \E w \in Workers : start_operation_lock(w)
    \/ \E w \in Workers : start_operation_wake(w)
    \/ \E w \in Workers : operation_run(w)
    \/ \E w \in Workers : operation_suspend_point_check(w)
    \/ \E w \in Workers : operation_suspend_point_lock(w)
    \/ \E w \in Workers : operation_suspend_point_wake(w)
    \/ \E w \in Workers : operation_step(w)
    \/ \E w \in Workers : OperationGuard_drop(w)
    \/ snapshot_request(MaxSnapshots)
    \/ snapshot_fetch_or
    \/ snapshot_wait_check
    \/ snapshot_wait_park
    \/ snapshot_wake
    \/ snapshot_collect
    \/ snapshot_take
    \/ snapshot_clear
    \/ snapshot_save

\* ------------------------------------------------------------------------
\* Part II: task storage, the read path and the execution of tasks
\* ------------------------------------------------------------------------
\* Tasks. Task 1 is a transient root task (create_transient_task); the other
\* tasks are cached tasks, read and connected by lower-numbered tasks.
NumTasks == 2
\* Threads outside of any task that read untracked and invalidate tasks.
NumThreads == 1
\* Backend calls made by the threads and by the task bodies over a run.
MaxCalls == 3
\* Backend calls over a run in which the task bodies only read and write
\* cells: enough for a task to be executed twice while a reader holds an edge
\* on one of the cells of its first execution.
MaxCellCalls == 5

\* Sessions started on one backing store.
MaxSessions == 5

\* Cell indexes of the one cell type: 0..MaxCellIndex.
MaxCellIndex == 1
\* Distinct output values a task can produce.
MaxOutput == 2

Tasks == 1..NumTasks
\* reader: Option<TaskId> == None
NoTask == 0
Threads == 1..NumThreads
\* The context that executes task t (the host's worker running the task).
Exec(t) == NumThreads + t
Contexts == 1..(NumThreads + NumTasks)
CellIndexes == 0..MaxCellIndex
\* get!(task, CellTypeMaxIndex { cell_type }) == None
NoMaxIndex == -1
\* get!(task, Output) == None
NoOutput == 0
Outputs == 1..MaxOutput
\* OutputValue::Error and OutputValue::Panic
OutputError == MaxOutput + 1
OutputPanic == MaxOutput + 2
\* What the body of a task returns: a value, an error or a panic.
Results == Outputs \cup {OutputError, OutputPanic}
Consistencies == {"Eventual", "Strong"}

\* Event::new: the n-th event created on behalf of task t.
Event(t, n) == <<t, n>>
NoEvent == <<0, 0>>

\* InProgressState
NoInProgress ==
    [state |-> "None", stale |-> FALSE, done_event |-> NoEvent,
     session_dependent |-> FALSE]
\* CachedDataItem::new_scheduled: InProgressState::Scheduled { done_event }
new_scheduled(e) ==
    [state |-> "Scheduled", stale |-> FALSE, done_event |-> e,
     session_dependent |-> FALSE]

\* RootState { ty, all_clean_event }
NoRoot == [ty |-> "None", all_clean_event |-> NoEvent]
RootState(ty, e) == [ty |-> ty, all_clean_event |-> e]

\* The items of a task that has none. InProgressCell maps a cell to the
\* events registered for it; CellDependent holds <<cell, task>>,
\* CellDependency and OutdatedCellDependency hold <<task, cell>>.
EmptyTask ==
    [InProgress |-> NoInProgress,
     Output |-> NoOutput,
     Error |-> FALSE,
     Dirty |-> "None",
     AggregationNumber |-> "None",
     AggregateRoot |-> NoRoot,
     AggregatedDirtyContainer |-> {},
     AggregatedDirtyContainerCount |-> 0,
     Upper |-> {},
     Child |-> {},
     OutdatedChild |-> {},
     OutputDependent |-> {},
     OutputDependency |-> {},
     OutdatedOutputDependency |-> {},
     CellData |-> {},
     CellTypeMaxIndex |-> NoMaxIndex,
     InProgressCell |-> [cell \in CellIndexes |-> {}],
     CellDependent |-> {},
     CellDependency |-> {},
     OutdatedCellDependency |-> {},
     CollectiblesDependent |-> {},
     CollectiblesDependency |-> {},
     OutdatedCollectiblesDependency |-> {},
     Collectible |-> {},
     OutdatedCollectible |-> {}]

\* create_transient_task(TransientTaskType::Root): AggregationNumber with
\* effective u32::MAX, AggregateRoot of type RootTask, InProgress Scheduled.
create_transient_task(root_event, done_event) ==
    [EmptyTask EXCEPT !.AggregationNumber = "Root",
                      !.AggregateRoot = RootState("RootTask", root_event),
                      !.InProgress = new_scheduled(done_event)]

\* The task is the root task of the run.
has_root_task(task) == task.AggregateRoot.ty = "RootTask"

\* is_root_node(get_aggregation_number(&task))
is_root_node(task) == task.AggregationNumber = "Root"

\* dirty_state.get(self.session_id): dirty in the current session
is_dirty_in_session(task) == task.Dirty = "Dirty"

\* Result<Result<_, EventListener>> of a read, and a panic of the call.
\* A listener carries the event it listens on and what the event stands for
\* (listen_with_note).
NoResult ==
    [kind |-> "none", value |-> 0, event |-> NoEvent, note |-> "", woken |-> FALSE]
Value(v) == [NoResult EXCEPT !.kind = "value", !.value = v]
Listener(e, note) == [NoResult EXCEPT !.kind = "listener", !.event = e, !.note = note]
Error == [NoResult EXCEPT !.kind = "error"]
Panic == [NoResult EXCEPT !.kind = "panic"]

\* The locals of a context: the backend call it is in (fn, task, cell,
\* consistency, result), the state of the operation the call runs, and for
\* the context of an execution what the execution has done.
IdleContext ==
    [pc |-> "idle", fn |-> "none", task |-> NoTask, cell |-> 0,
     consistency |-> "Eventual", result |-> NoResult,
     queue |-> <<>>, then |-> "idle", dependent_tasks |-> {}, children |-> {},
     child |-> NoTask, written_cells |-> {}, old_edges |-> {},
     done_event |-> NoEvent, output |-> NoOutput, output_written |-> FALSE]

\* The items of a cached task that was executed in an earlier run: it has
\* its Output and its cell counter, the cell data was dropped.
RestoredTask ==
    [EmptyTask EXCEPT !.Output = 1, !.CellTypeMaxIndex = MaxCellIndex]

\* Task 1 was created by create_transient_task; every other task is either
\* unknown so far or restored.
InitStorage ==
    /\ storage \in [Tasks -> {create_transient_task(Event(1, 1), Event(1, 2)),
                              EmptyTask, RestoredTask}]
    /\ \A t \in Tasks : has_root_task(storage[t]) <=> t = 1
    /\ th = [c \in Contexts |-> IdleContext]
    /\ scheduled = [t \in Tasks |-> IF t = 1 THEN 1 ELSE 0]
    /\ events = [t \in Tasks |-> IF t = 1 THEN 2 ELSE 0]
    /\ calls = 0

\* Event::notify(usize::MAX): wakes every listener registered on the event.
Notify(e, ctxs) ==
    [c \in Contexts |->
        IF ctxs[c].result.kind = "listener" /\ ctxs[c].result.event = e
        THEN [ctxs[c] EXCEPT !.result.woken = TRUE]
        ELSE ctxs[c]]

RECURSIVE NotifyAll(_, _)
NotifyAll(es, ctxs) ==
    IF es = {} THEN ctxs
    ELSE LET e == CHOOSE x \in es : TRUE
         IN NotifyAll(es \ {e}, Notify(e, ctxs))

\* Where a context is between two backend calls: a thread is idle, the body
\* of a task is running.
Home(c) == IF c \in Threads THEN "idle" ELSE "running"
\* The reader of the reads of a context: none for a thread, the task for
\* the body of a task.
Reader(c) == IF c \in Threads THEN NoTask ELSE c - NumThreads

\* A caller that was handed a listener awaits it before it goes on.
Awaiting(c) == th[c].result.kind = "listener" /\ ~th[c].result.woken

\* A context can start a backend call.
CanCall(c) ==
    /\ th[c].pc = Home(c)
    /\ ~Awaiting(c)
    /\ calls < budget

\* The tasks a context reads: a task reads higher-numbered tasks only.
Targets(c) == {t \in Tasks : Reader(c) < t}

\* The locals of a new call of context c.
Call(c, fn, task_id, cell, consistency) ==
    [th[c] EXCEPT !.fn = fn, !.task = task_id, !.cell = cell,
                  !.consistency = consistency, !.result = NoResult]

\* return from the call of context c with the result res
Return(c, ctx, res) == [ctx EXCEPT !.pc = Home(c), !.result = res, !.queue = <<>>]

\* Run the jobs of an AggregationUpdateQueue, then go on at `then`.
Continue(ctx, jobs, then) ==
    IF jobs = <<>>
    THEN [ctx EXCEPT !.pc = then, !.queue = <<>>]
    ELSE [ctx EXCEPT !.pc = "aggregation", !.queue = jobs, !.then = then]

barrier_unchanged == UNCHANGED <<barrier_vars, create_vars, budget, aux_vars>>

\* ------------------------------------------------------------------------
\* The aggregation of dirty containers (AggregationUpdateQueue)
\* ------------------------------------------------------------------------
RECURSIVE SetToSeq(_)
SetToSeq(S) ==
    IF S = {} THEN <<>>
    ELSE LET x == CHOOSE y \in S : \A z \in S : y <= z
         IN <<x>> \o SetToSeq(S \ {x})

\* AggregationUpdateJob::DataUpdate { task_id, update }: the dirty state of
\* the task changed and is propagated to its uppers.
DataUpdate(t) == [kind |-> "DataUpdate", task |-> t]
\* AggregationUpdateJob::FindAndScheduleDirty { task_ids }, one task per job
FindAndScheduleDirty(t) == [kind |-> "FindAndScheduleDirty", task |-> t]

\* queue.push of one job of the kind for each task of S
Jobs(kind, S) ==
    [k \in 1..Cardinality(S) |-> [kind |-> kind, task |-> SetToSeq(S)[k]]]

\* The task has a dirty container below it or is dirty itself.
DirtyContainer(task) ==
    task.AggregatedDirtyContainerCount > 0 \/ is_dirty_in_session(task)

\* AggregatedDataUpdate::apply on an upper of t: t is entered in, or removed
\* from, the dirty containers of the upper, which is idempotent; a
\* CachedActiveUntilClean root is removed once the upper is all clean.
apply_dirty_container_update(upper, t, dirty) ==
    LET had == t \in upper.AggregatedDirtyContainer
        updated ==
            IF dirty /\ ~had
            THEN [upper EXCEPT !.AggregatedDirtyContainer = @ \cup {t},
                               !.AggregatedDirtyContainerCount = @ + 1]
            ELSE IF ~dirty /\ had
            THEN [upper EXCEPT !.AggregatedDirtyContainer = @ \ {t},
                               !.AggregatedDirtyContainerCount = @ - 1]
            ELSE upper
    IN  IF /\ DirtyContainer(upper)
           /\ ~DirtyContainer(updated)
           /\ upper.AggregateRoot.ty = "CachedActiveUntilClean"
        THEN [updated EXCEPT !.AggregateRoot = NoRoot]
        ELSE updated

\* The storage after the dirty state of t was applied to the uppers.
data_update_storage(st, t, uppers) ==
    [u \in Tasks |->
        IF u \in uppers
        THEN apply_dirty_container_update(st[u], t, DirtyContainer(st[t]))
        ELSE st[u]]

\* all_clean_event of every root among the uppers that became all clean.
data_update_events(st, st2, uppers) ==
    {st[u].AggregateRoot.all_clean_event :
        u \in {v \in uppers : /\ DirtyContainer(st[v])
                              /\ ~DirtyContainer(st2[v])
                              /\ st[v].AggregateRoot.ty # "None"}}

\* The derived jobs: the uppers whose own dirty state changed propagate
\* upward; a dirty task below an aggregate root is scheduled.
data_update_jobs(st, st2, t, uppers) ==
    Jobs("DataUpdate", {u \in uppers : DirtyContainer(st[u]) # DirtyContainer(st2[u])})
    \o (IF /\ DirtyContainer(st[t])
           /\ \E u \in uppers \cup {t} : st[u].AggregateRoot.ty # "None"
        THEN <<FindAndScheduleDirty(t)>> ELSE <<>>)

\* turbo_tasks.schedule(task_id)
schedule(sch, t) == [sch EXCEPT ![t] = @ + 1]

\* if let Some(in_progress) = get!(task, InProgress)
has_in_progress(task) == task.InProgress.state # "None"

\* One job of the queue of context c.
aggregation_update(c) ==
    /\ th[c].pc = "aggregation"
    /\ LET job == Head(th[c].queue)
           rest == Tail(th[c].queue)
           t == job.task
           uppers == storage[t].Upper
           st2 == data_update_storage(storage, t, uppers)
       IN
       \/ /\ job.kind = "DataUpdate"
          /\ storage' = st2
          /\ th' = NotifyAll(data_update_events(storage, st2, uppers),
                     [th EXCEPT ![c] = Continue(@,
                         rest \o data_update_jobs(storage, st2, t, uppers),
                         th[c].then)])
          /\ UNCHANGED <<scheduled, events>>
       \/ /\ job.kind = "FindAndScheduleDirty"
          /\ LET task == storage[t]
                 sched == is_dirty_in_session(task) /\ ~has_in_progress(task)
                 e == Event(t, events[t] + 1)
             IN /\ storage' = IF sched
                              THEN [storage EXCEPT ![t].InProgress = new_scheduled(e)]
                              ELSE storage
                /\ events' = IF sched THEN [events EXCEPT ![t] = @ + 1] ELSE events
                /\ scheduled' = IF sched THEN schedule(scheduled, t) ELSE scheduled
                /\ th' = [th EXCEPT ![c] = Continue(@,
                            rest \o Jobs("FindAndScheduleDirty",
                                         task.AggregatedDirtyContainer),
                            th[c].then)]
    /\ UNCHANGED calls
    /\ barrier_unchanged

\* AggregationUpdateJob::UpdateAggregationNumber { base: u32::MAX }: the task
\* becomes a root node and the upper of its children.
update_aggregation_number(st, t) ==
    [u \in Tasks |->
        IF u = t THEN [st[t] EXCEPT !.AggregationNumber = "Root"]
        ELSE IF u \in st[t].Child THEN [st[u] EXCEPT !.Upper = @ \cup {t}]
        ELSE st[u]]

\* InnerHasNewFollower { upper_ids, new_follower_id }: upper_ids is the parent
\* if it has an AggregationNumber, else the uppers of the parent.
inner_has_new_follower(st, p, c) ==
    LET upper_ids == IF st[p].AggregationNumber # "None" THEN {p} ELSE st[p].Upper
    IN [st EXCEPT ![c].Upper = @ \cup upper_ids]

\* ------------------------------------------------------------------------
\* try_read_task_output
\* ------------------------------------------------------------------------
\* A dirty check that looks at the task itself only, not at its containers.
strong_read_is_dirty_own(task) == is_dirty_in_session(task)

\* if dirty_tasks > 0 || is_dirty
strong_read_is_dirty(task) ==
    task.AggregatedDirtyContainerCount > 0 \/ is_dirty_in_session(task)

\* try_read_task_output: the result the stored Output gives: its value, the
\* paired Error of OutputValue::Error | Panic, or none if there is no Output
\* or no Error to pair.
read_output_result(task) ==
    IF task.Output = NoOutput THEN NoResult
    ELSE IF task.Output \in {OutputError, OutputPanic}
    THEN (IF task.Error THEN Error ELSE NoResult)
    ELSE Value(task.Output)

\* try_read_task_output from the dirty check on (the task lock is held):
\* a strongly consistent read of a dirty task or of a task with dirty
\* containers listens on all_clean_event; an Output is returned and the
\* dependent recorded; otherwise the task is scheduled.
try_read_task_output_locked(c, call) ==
    LET task_id == call.task
        task == storage[task_id]
        is_dirty == is_dirty_in_session(task)
        fresh == Event(task_id, events[task_id] + 1)
    IN
    IF call.consistency = "Strong" /\ strong_read_is_dirty(task)
    THEN LET has_root == task.AggregateRoot.ty # "None"
             e == IF has_root THEN task.AggregateRoot.all_clean_event ELSE fresh
             task_ids_to_schedule ==
                 IF has_root THEN <<>>
                 ELSE Jobs("FindAndScheduleDirty", task.AggregatedDirtyContainer)
                      \o (IF is_dirty THEN <<FindAndScheduleDirty(task_id)>>
                          ELSE <<>>)
         IN /\ storage' = IF has_root THEN storage
                          ELSE [storage EXCEPT ![task_id].AggregateRoot =
                                    RootState("CachedActiveUntilClean", e)]
            /\ events' = IF has_root THEN events
                         ELSE [events EXCEPT ![task_id] = @ + 1]
            /\ th' = [th EXCEPT ![c] =
                        Continue([call EXCEPT !.result = Listener(e, "all_clean")],
                                 task_ids_to_schedule, Home(c))]
            /\ UNCHANGED scheduled
    ELSE IF read_output_result(task).kind # "none"
    THEN IF Reader(c) # NoTask
         THEN /\ storage' = [storage EXCEPT ![task_id].OutputDependent =
                                                @ \cup {Reader(c)}]
              /\ th' = [th EXCEPT ![c] =
                          [call EXCEPT !.pc = "output_dependency",
                                       !.result = read_output_result(task)]]
              /\ UNCHANGED <<scheduled, events>>
         ELSE /\ th' = [th EXCEPT ![c] =
                          Return(c, call, read_output_result(task))]
              /\ UNCHANGED <<storage, scheduled, events>>
    ELSE IF has_in_progress(task)
    THEN \* task.add_new(item) on a task that has the item already
         /\ th' = [th EXCEPT ![c] = Return(c, call, Panic)]
         /\ UNCHANGED <<storage, scheduled, events>>
    ELSE /\ storage' = [storage EXCEPT ![task_id].InProgress = new_scheduled(fresh)]
         /\ events' = [events EXCEPT ![task_id] = @ + 1]
         /\ scheduled' = schedule(scheduled, task_id)
         /\ th' = [th EXCEPT ![c] = Return(c, call, Listener(fresh, "done"))]

\* try_read_task_output up to the first release of the task lock: the
\* InProgress check; a strongly consistent read of a task that is no root
\* node drops the lock and raises the task (UpdateAggregationNumber).
try_read_task_output(c, task_id, consistency) ==
    /\ CanCall(c)
    /\ task_id \in Targets(c)
    /\ calls' = calls + 1
    /\ LET task == storage[task_id]
           call == Call(c, "try_read_task_output", task_id, 0, consistency)
       IN IF has_in_progress(task)
          THEN /\ th' = [th EXCEPT ![c] =
                            Return(c, call, Listener(task.InProgress.done_event, "done"))]
               /\ UNCHANGED <<storage, scheduled, events>>
          ELSE IF consistency = "Strong" /\ ~is_root_node(task)
          THEN /\ storage' = update_aggregation_number(storage, task_id)
               /\ th' = [th EXCEPT ![c] =
                            Continue(call, Jobs("DataUpdate", task.Child), "relock")]
               /\ UNCHANGED <<scheduled, events>>
          ELSE try_read_task_output_locked(c, call)
    /\ barrier_unchanged

\* try_read_task_output: task = ctx.task(task_id, ..) after the task was
\* raised; the loop ends and the read goes on from the dirty check.
try_read_task_output_relock(c) ==
    /\ th[c].pc = "relock"
    /\ th[c].fn = "try_read_task_output"
    /\ try_read_task_output_locked(c, th[c])
    /\ UNCHANGED calls
    /\ barrier_unchanged

\* A read that records nothing on the side of the reader.
add_output_dependency_none(reader_task, target) == reader_task

\* The reader's items after the reader's side of an output edge was added:
\* if reader_task.remove(OutdatedOutputDependency { target }).is_none()
\*    { reader_task.add(OutputDependency { target }) }
add_output_dependency(reader_task, target) ==
    IF target \in reader_task.OutdatedOutputDependency
    THEN [reader_task EXCEPT !.OutdatedOutputDependency = @ \ {target}]
    ELSE [reader_task EXCEPT !.OutputDependency = @ \cup {target}]

try_read_task_output_dependency(c) ==
    /\ th[c].pc = "output_dependency"
    /\ storage' = [storage EXCEPT ![Reader(c)] = add_output_dependency(@, th[c].task)]
    /\ th' = [th EXCEPT ![c] = Return(c, @, th[c].result)]
    /\ UNCHANGED <<scheduled, events, calls>>
    /\ barrier_unchanged

\* ------------------------------------------------------------------------
\* try_read_task_cell
\* ------------------------------------------------------------------------
\* A read without the range check.
cell_in_range_unchecked(task, cell) == TRUE

\* The cell index is within the range of the cells the task has.
cell_in_range(task, cell) ==
    task.CellTypeMaxIndex # NoMaxIndex /\ ~(cell > task.CellTypeMaxIndex)

\* A read that does not look for the InProgressCell of another reader.
has_in_progress_cell_never(task, cell) == FALSE

\* get!(task, InProgressCell { cell }) is Some
has_in_progress_cell(task, cell) == task.InProgressCell[cell] # {}

\* task.add(CachedDataItem::new_scheduled(..)) returns true
add_new_scheduled(task) == ~has_in_progress(task)

\* The reader's items after the reader's side of a cell edge was added.
add_cell_dependency(reader_task, target) ==
    IF target \in reader_task.OutdatedCellDependency
    THEN [reader_task EXCEPT !.OutdatedCellDependency = @ \ {target}]
    ELSE [reader_task EXCEPT !.CellDependency = @ \cup {target}]

try_read_task_cell(c, task_id, cell) ==
    /\ CanCall(c)
    /\ task_id \in Targets(c)
    /\ calls' = calls + 1
    /\ LET task == storage[task_id]
           call == Call(c, "try_read_task_cell", task_id, cell, "Eventual")
       IN
       IF cell \in task.CellData
       THEN IF Reader(c) # NoTask
            THEN /\ storage' = [storage EXCEPT ![task_id].CellDependent =
                                                   @ \cup {<<cell, Reader(c)>>}]
                 /\ th' = [th EXCEPT ![c] =
                             [call EXCEPT !.pc = "cell_dependency",
                                          !.result = Value(1)]]
                 /\ UNCHANGED <<scheduled, events>>
            ELSE /\ th' = [th EXCEPT ![c] = Return(c, call, Value(1))]
                 /\ UNCHANGED <<storage, scheduled, events>>
       ELSE IF ~cell_in_range(task, cell)
       THEN /\ th' = [th EXCEPT ![c] = Return(c, call, Error)]
            /\ UNCHANGED <<storage, scheduled, events>>
       ELSE IF has_in_progress_cell(task, cell)
       THEN /\ th' = [th EXCEPT ![c] = Return(c, call,
                        Listener(CHOOSE e \in task.InProgressCell[cell] : TRUE,
                                 "cell"))]
            /\ UNCHANGED <<storage, scheduled, events>>
       ELSE LET e == Event(task_id, events[task_id] + 1)
                sched == add_new_scheduled(task)
            IN /\ storage' = [storage EXCEPT
                    ![task_id].InProgressCell[cell] = @ \cup {e},
                    ![task_id].InProgress =
                        IF sched THEN new_scheduled(Event(task_id, events[task_id] + 2))
                        ELSE @]
               /\ events' = [events EXCEPT ![task_id] = IF sched THEN @ + 2 ELSE @ + 1]
               /\ scheduled' = IF sched THEN schedule(scheduled, task_id)
                               ELSE scheduled
               /\ th' = [th EXCEPT ![c] = Return(c, call, Listener(e, "cell"))]
    /\ barrier_unchanged

\* try_read_task_cell: the reader's side of the edge
try_read_task_cell_dependency(c) ==
    /\ th[c].pc = "cell_dependency"
    /\ storage' = [storage EXCEPT ![Reader(c)] =
                        add_cell_dependency(@, <<th[c].task, th[c].cell>>)]
    /\ th' = [th EXCEPT ![c] = Return(c, @, th[c].result)]
    /\ UNCHANGED <<scheduled, events, calls>>
    /\ barrier_unchanged

\* ------------------------------------------------------------------------
\* read_task_collectibles (one collectible type)
\* ------------------------------------------------------------------------
\* read_task_collectibles from the collection on (the task lock is held):
\* task.insert(CollectiblesDependent { collectible_type, task: reader })
read_task_collectibles_locked(c, call) ==
    /\ storage' = [storage EXCEPT ![call.task].CollectiblesDependent =
                                      @ \cup {Reader(c)}]
    /\ th' = [th EXCEPT ![c] = [call EXCEPT !.pc = "collectibles_dependency"]]

\* read_task_collectibles up to the first release of the task lock; a task
\* that is no root node is raised first.
read_task_collectibles(c, task_id) ==
    /\ CanCall(c)
    /\ Reader(c) # NoTask
    /\ task_id \in Targets(c)
    /\ calls' = calls + 1
    /\ LET call == Call(c, "read_task_collectibles", task_id, 0, "Eventual")
       IN IF is_root_node(storage[task_id])
          THEN read_task_collectibles_locked(c, call)
          ELSE /\ storage' = update_aggregation_number(storage, task_id)
               /\ th' = [th EXCEPT ![c] =
                            Continue(call, Jobs("DataUpdate", storage[task_id].Child),
                                     "relock")]
    /\ UNCHANGED <<scheduled, events>>
    /\ barrier_unchanged

read_task_collectibles_relock(c) ==
    /\ th[c].pc = "relock"
    /\ th[c].fn = "read_task_collectibles"
    /\ read_task_collectibles_locked(c, th[c])
    /\ UNCHANGED <<scheduled, events, calls>>
    /\ barrier_unchanged

\* The reader's items after the reader's side of a collectibles edge:
\* if reader.add(CollectiblesDependency { target })
\*    { reader.remove(OutdatedCollectiblesDependency { target }) }
add_collectibles_dependency(reader_task, target) ==
    IF target \notin reader_task.CollectiblesDependency
    THEN [reader_task EXCEPT !.CollectiblesDependency = @ \cup {target},
                             !.OutdatedCollectiblesDependency = @ \ {target}]
    ELSE reader_task

read_task_collectibles_dependency(c) ==
    /\ th[c].pc = "collectibles_dependency"
    /\ storage' = [storage EXCEPT ![Reader(c)] =
                        add_collectibles_dependency(@, th[c].task)]
    /\ th' = [th EXCEPT ![c] = Return(c, @, Value(0))]
    /\ UNCHANGED <<scheduled, events, calls>>
    /\ barrier_unchanged

\* ------------------------------------------------------------------------
\* The execution of a task: try_start_task_execution, the calls of the task
\* body, task_execution_result and task_execution_completed
\* ------------------------------------------------------------------------
\* try_start_task_execution: the items of the task once it is InProgress:
\* current children and dependencies get their Outdated shadow.
start_execution_items(task) ==
    [task EXCEPT
        !.InProgress = [state |-> "InProgress", stale |-> FALSE,
                        done_event |-> task.InProgress.done_event,
                        session_dependent |-> FALSE],
        !.OutdatedChild = task.Child,
        !.OutdatedCollectible = task.Collectible,
        !.OutdatedCellDependency = task.CellDependency,
        !.OutdatedOutputDependency = task.OutputDependency]

\* The host dequeues a scheduled task and calls try_start_task_execution on
\* the worker of the task, once that worker is through with the previous
\* execution.
try_start_task_execution(t) ==
    /\ scheduled[t] > 0
    /\ th[Exec(t)].pc = "idle"
    /\ scheduled' = [scheduled EXCEPT ![t] = @ - 1]
    /\ IF storage[t].InProgress.state = "Scheduled"
       THEN /\ storage' = [storage EXCEPT ![t] = start_execution_items(@)]
            /\ th' = [th EXCEPT ![Exec(t)] = [IdleContext EXCEPT !.pc = "running"]]
       ELSE UNCHANGED <<storage, th>>
    /\ UNCHANGED <<events, calls>>
    /\ barrier_unchanged

\* A variant that takes the item for added whatever the task carries.
make_task_dirty_add_always(task) == TRUE

\* make_task_dirty: task.add(Dirty { value: () }) returns true
make_task_dirty_add(task) == task.Dirty = "None"

\* A variant that marks every task of the storage.
make_tasks_dirty_all(st, task_ids) ==
    [t \in Tasks |->
        IF task_ids # {} /\ make_task_dirty_add(st[t])
        THEN [st[t] EXCEPT !.Dirty = "Dirty"] ELSE st[t]]

\* The storage after make_task_dirty on each of the tasks.
make_tasks_dirty(st, task_ids) ==
    [t \in Tasks |->
        IF t \in task_ids /\ make_task_dirty_add(st[t])
        THEN [st[t] EXCEPT !.Dirty = "Dirty"] ELSE st[t]]

\* A variant that pushes no job.
make_tasks_dirty_jobs_none(st, task_ids) == <<>>

\* queue.push(DataUpdate { task_id, update: dirty_task(task_id) }) of each
make_tasks_dirty_jobs(st, task_ids) ==
    Jobs("DataUpdate", {t \in task_ids : make_task_dirty_add(st[t])})

\* A variant that takes the readers of every cell of the task.
cell_dependents_of_any_cell(task, cell) == {d[2] : d \in task.CellDependent}

\* UpdateCellOperation::run: get_many!(task, CellDependent { cell:
\* dependent_cell, task } if *dependent_cell == cell => *task)
cell_dependents(task, cell) ==
    {r \in Tasks : <<cell, r>> \in task.CellDependent}

\* A variant that returns for a recomputed cell before the InProgressCell
\* item is removed.
update_task_cell_return_first(t, cell, has_content) ==
    /\ CanCall(Exec(t))
    /\ calls' = calls + 1
    /\ LET task == storage[t]
           old_content == cell \in task.CellData
           recomputed == ~old_content /\ task.Dirty = "None"
           dependent == cell_dependents(task, cell)
           ctx == [Call(Exec(t), "update_task_cell", t, cell, "Eventual") EXCEPT
                      !.written_cells = @ \cup {cell}]
       IN /\ storage' = [storage EXCEPT
                ![t].CellData = IF has_content THEN @ \cup {cell} ELSE @ \ {cell},
                ![t].InProgressCell[cell] = IF recomputed THEN @ ELSE {}]
          /\ th' = IF recomputed
                   THEN [th EXCEPT ![Exec(t)] = ctx]
                   ELSE NotifyAll(task.InProgressCell[cell],
                            [th EXCEPT ![Exec(t)] =
                                [ctx EXCEPT !.pc = "invalidate",
                                            !.dependent_tasks = dependent]])
    /\ UNCHANGED <<scheduled, events>>
    /\ barrier_unchanged

\* UpdateCellOperation::run, called by the body of t (update_task_cell)
update_task_cell(t, cell, has_content) ==
    /\ CanCall(Exec(t))
    /\ calls' = calls + 1
    /\ LET task == storage[t]
           old_content == cell \in task.CellData
           recomputed == ~old_content /\ task.Dirty = "None"
           dependent == cell_dependents(task, cell)
           ctx == [Call(Exec(t), "update_task_cell", t, cell, "Eventual") EXCEPT
                      !.written_cells = @ \cup {cell}]
       IN /\ storage' = [storage EXCEPT
                ![t].CellData = IF has_content THEN @ \cup {cell} ELSE @ \ {cell},
                ![t].InProgressCell[cell] = {}]
          /\ th' = NotifyAll(task.InProgressCell[cell],
                    [th EXCEPT ![Exec(t)] =
                        IF recomputed THEN ctx
                        ELSE [ctx EXCEPT !.pc = "invalidate",
                                         !.dependent_tasks = dependent]])
    /\ UNCHANGED <<scheduled, events>>
    /\ barrier_unchanged

\* InvalidateOperation::MakeDirty, then AggregationUpdate
invalidate_make_dirty(c) ==
    /\ th[c].pc = "invalidate"
    /\ storage' = make_tasks_dirty(storage, th[c].dependent_tasks)
    /\ th' = [th EXCEPT ![c] =
                Continue([@ EXCEPT !.dependent_tasks = {}],
                         make_tasks_dirty_jobs(storage, th[c].dependent_tasks),
                         Home(c))]
    /\ UNCHANGED <<scheduled, events, calls>>
    /\ barrier_unchanged

\* make_task_dirty_internal with make_stale: an item in the InProgress
\* state gets stale = true (the stale-execution rule).
make_stale(task) ==
    IF task.InProgress.state = "InProgress"
    THEN [task EXCEPT !.InProgress.stale = TRUE]
    ELSE task

\* InvalidateOperation::MakeDirty with the stale-execution rule applied to
\* each task, then AggregationUpdate
invalidate_make_dirty_stale(c) ==
    /\ th[c].pc = "invalidate"
    /\ storage' = [t \in Tasks |->
                     IF t \in th[c].dependent_tasks
                     THEN make_stale(make_tasks_dirty(storage, {t})[t])
                     ELSE storage[t]]
    /\ th' = [th EXCEPT ![c] =
                Continue([@ EXCEPT !.dependent_tasks = {}],
                         make_tasks_dirty_jobs(storage, th[c].dependent_tasks),
                         Home(c))]
    /\ UNCHANGED <<scheduled, events, calls>>
    /\ barrier_unchanged

\* invalidate_task(task): InvalidateOperation::run([task]) by a thread
invalidate_task(i, t) ==
    /\ CanCall(i)
    /\ calls' = calls + 1
    /\ th' = [th EXCEPT ![i] =
                [Call(i, "invalidate_task", t, 0, "Eventual") EXCEPT
                    !.pc = "invalidate", !.dependent_tasks = {t}]]
    /\ UNCHANGED <<storage, scheduled, events>>
    /\ barrier_unchanged

\* mark_own_task_as_session_dependent, called by the body of t
mark_own_task_as_session_dependent(t) ==
    /\ CanCall(Exec(t))
    /\ calls' = calls + 1
    /\ storage[t].InProgress.state = "InProgress"
    /\ ~storage[t].InProgress.session_dependent
    /\ storage' = [storage EXCEPT ![t].InProgress.session_dependent = TRUE]
    /\ UNCHANGED <<th, scheduled, events>>
    /\ barrier_unchanged

\* ConnectChildOperation::run(parent, child), called by the body of the
\* parent: if parent_task.add(Child { task: child }) { .. }
connect_child(p, c) ==
    /\ CanCall(Exec(p))
    /\ p < c
    /\ calls' = calls + 1
    /\ LET call == Call(Exec(p), "connect_child", c, 0, "Eventual")
       IN IF c \notin storage[p].Child
          THEN /\ storage' = inner_has_new_follower(
                                [storage EXCEPT ![p].Child = @ \cup {c}], p, c)
               /\ th' = [th EXCEPT ![Exec(p)] =
                            Continue([call EXCEPT !.child = c],
                                     <<DataUpdate(c)>>, "connect_schedule")]
          ELSE /\ th' = [th EXCEPT ![Exec(p)] = call]
               /\ UNCHANGED storage
    /\ UNCHANGED <<scheduled, events>>
    /\ barrier_unchanged

\* ConnectChildOperation::ScheduleTask: task.add(new_scheduled(task_id));
\* ctx.schedule(task_id)
connect_child_schedule_task(p) ==
    /\ th[Exec(p)].pc = "connect_schedule"
    /\ LET c == th[Exec(p)].child
           added == add_new_scheduled(storage[c])
       IN /\ storage' = IF added
                        THEN [storage EXCEPT ![c].InProgress =
                                    new_scheduled(Event(c, events[c] + 1))]
                        ELSE storage
          /\ events' = IF added THEN [events EXCEPT ![c] = @ + 1] ELSE events
          /\ scheduled' = schedule(scheduled, c)
    /\ th' = [th EXCEPT ![Exec(p)] = [@ EXCEPT !.pc = "running", !.child = NoTask]]
    /\ UNCHANGED calls
    /\ barrier_unchanged

\* make_task_dirty_internal(task, task_id, false, queue, ctx): the task is
\* marked dirty unless it carries Dirty already.
make_task_dirty_internal_add(task) == task.Dirty = "None"

\* UpdateOutputOperation::execute: the state the loop is in once the passes
\* that have nothing to do are over.
update_output_execute(ctx) ==
    IF ctx.dependent_tasks # {}
    THEN [ctx EXCEPT !.pc = "make_dependent_tasks_dirty"]
    ELSE IF ctx.children # {}
    THEN [ctx EXCEPT !.pc = "ensure_unfinished_children_dirty"]
    ELSE Continue(ctx, ctx.queue, "resulted")

\* A variant without the comparison with the current output.
output_unchanged_never(task, output) == FALSE

\* UpdateOutputOperation::run: a result that is no error and has the target
\* of the current output returns early.
output_unchanged(task, output) == output \in Outputs /\ task.Output = output

\* A variant that inserts no Error item.
output_is_error_never(output) == FALSE

\* UpdateOutputOperation::run: Ok(Err(err)) and Err(panic) insert an Error
output_is_error(output) == output \in {OutputError, OutputPanic}

\* task_execution_result: UpdateOutputOperation::run(task_id, result, ctx),
\* called when the body of t has returned
task_execution_result(t, output) ==
    /\ th[Exec(t)].pc = "running"
    /\ ~Awaiting(Exec(t))
    /\ output <= storage[t].Output + 1 \/ output \notin Outputs
    /\ LET task == storage[t]
           add == make_task_dirty_internal_add(task)
       IN
       IF task.InProgress.state = "InProgress" /\ task.InProgress.stale
       THEN \* Skip updating the output when the task is stale
            /\ th' = [th EXCEPT ![Exec(t)].pc = "resulted",
                                ![Exec(t)].output = output]
            /\ UNCHANGED storage
       ELSE IF output_unchanged(task, output)
       THEN \* old_error = task.remove(Error); return
            /\ th' = [th EXCEPT ![Exec(t)].pc = "resulted",
                                ![Exec(t)].output = output]
            /\ storage' = [storage EXCEPT ![t].Error = FALSE]
       ELSE /\ storage' = [storage EXCEPT
                             ![t].Output = output,
                             ![t].Error = output_is_error(output),
                             ![t].Dirty = IF add THEN "Dirty" ELSE @]
            /\ th' = [th EXCEPT ![Exec(t)] =
                        update_output_execute(
                            [@ EXCEPT !.dependent_tasks = task.OutputDependent,
                                      !.children = task.Child,
                                      !.output = output,
                                      !.output_written = TRUE,
                                      !.queue = IF add THEN <<DataUpdate(t)>>
                                                ELSE <<>>])]
    /\ UNCHANGED <<scheduled, events, calls>>
    /\ barrier_unchanged

\* UpdateOutputOperation::MakeDependentTasksDirty: one dependent per pass
update_output_make_dependent_tasks_dirty(t) ==
    /\ th[Exec(t)].pc = "make_dependent_tasks_dirty"
    /\ LET ctx == th[Exec(t)]
       IN \E d \in ctx.dependent_tasks :
            /\ storage' = make_tasks_dirty(storage, {d})
            /\ th' = [th EXCEPT ![Exec(t)] =
                 update_output_execute(
                    [ctx EXCEPT
                        !.dependent_tasks = ctx.dependent_tasks \ {d},
                        !.queue = ctx.queue \o make_tasks_dirty_jobs(storage, {d})])]
    /\ UNCHANGED <<scheduled, events, calls>>
    /\ barrier_unchanged

\* A variant that takes every child for unfinished.
child_is_unfinished_always(child_task) == TRUE

\* EnsureUnfinishedChildrenDirty: if !child_task.has_key(Output {})
child_is_unfinished(child_task) == child_task.Output = NoOutput

\* UpdateOutputOperation::EnsureUnfinishedChildrenDirty: one child per pass,
\* made dirty if it has no Output; then AggregationUpdate
update_output_ensure_unfinished_children_dirty(t) ==
    /\ th[Exec(t)].pc = "ensure_unfinished_children_dirty"
    /\ LET ctx == th[Exec(t)]
       IN \E c \in ctx.children :
            LET unfinished == IF child_is_unfinished(storage[c]) THEN {c} ELSE {}
            IN /\ storage' = make_tasks_dirty(storage, unfinished)
               /\ th' = [th EXCEPT ![Exec(t)] =
                    update_output_execute(
                       [ctx EXCEPT
                          !.children = ctx.children \ {c},
                          !.queue = ctx.queue \o
                                    make_tasks_dirty_jobs(storage, unfinished)])]
    /\ UNCHANGED <<scheduled, events, calls>>
    /\ barrier_unchanged

\* An OutdatedEdge
OutdatedEdge(kind, task_id, cell) == [kind |-> kind, task |-> task_id, cell |-> cell]

\* A variant that removes no cell when the counter shrinks.
removed_cells_none(old_max_index, max_index) == {}

\* task_execution_completed: the cells removed by the new cell counter
removed_cells(old_max_index, max_index) ==
    IF old_max_index = NoMaxIndex THEN {}
    ELSE IF max_index = NoMaxIndex THEN 0..old_max_index
    ELSE IF old_max_index > max_index THEN (max_index + 1)..old_max_index
    ELSE {}

\* task_execution_completed: find all outdated data items
outdated_edges(task, removed, indexed) ==
    {OutdatedEdge("Child", c, 0) : c \in task.OutdatedChild}
    \cup {OutdatedEdge("CellDependency", d[1], d[2]) :
                d \in task.OutdatedCellDependency}
    \cup {OutdatedEdge("OutputDependency", d, 0) :
                d \in task.OutdatedOutputDependency}
    \cup (IF indexed THEN {}
          ELSE {OutdatedEdge("CollectiblesDependency", d, 0) :
                    d \in task.OutdatedCollectiblesDependency}
               \cup {OutdatedEdge("Collectible", collectible, 0) :
                        collectible \in task.OutdatedCollectible})
    \cup {OutdatedEdge("RemovedCellDependent", d[2], 0) :
                d \in {x \in task.CellDependent : x[1] \in removed}}

\* cell_counters: the execution reports the highest index of the cells it
\* has written, or no counter if it has written none.
CellCounters(t) ==
    LET cells == th[Exec(t)].written_cells
    IN IF cells = {} THEN {NoMaxIndex}
       ELSE {CHOOSE m \in cells : \A cell \in cells : cell <= m}

\* task_execution_completed up to CleanupOldEdgesOperation::run
task_execution_completed(t, max_index, indexed) ==
    /\ th[Exec(t)].pc = "resulted"
    /\ max_index \in CellCounters(t)
    /\ LET task == storage[t]
           removed == removed_cells(task.CellTypeMaxIndex, max_index)
           edges == outdated_edges(task, removed, indexed)
       IN
       IF task.InProgress.stale
       THEN \* If the task is stale, reschedule it: return true
            /\ storage' = [storage EXCEPT ![t].InProgress =
                                new_scheduled(task.InProgress.done_event)]
            /\ scheduled' = schedule(scheduled, t)
            /\ th' = [th EXCEPT ![Exec(t)] = IdleContext]
       ELSE /\ storage' = [storage EXCEPT
                             ![t].CellTypeMaxIndex = max_index,
                             ![t].CellData = @ \ removed]
            /\ th' = [th EXCEPT ![Exec(t)] =
                        IF edges = {} THEN [@ EXCEPT !.pc = "complete"]
                        ELSE [@ EXCEPT !.pc = "cleanup", !.old_edges = edges]]
            /\ UNCHANGED scheduled
    /\ UNCHANGED <<events, calls>>
    /\ barrier_unchanged

\* The uppers a child of t was attached to on behalf of t.
follower_uppers(st, t, c) ==
    (IF st[t].AggregationNumber # "None" THEN {t} ELSE st[t].Upper) \cap st[c].Upper

\* CleanupOldEdgesOperation: the storage without the edge and its other end;
\* a child leaves the uppers it was attached to; the dependent of a removed
\* cell is made dirty.
cleanup_old_edge(st, t, edge) ==
    IF edge.kind = "Child"
    THEN [st EXCEPT ![t].Child = @ \ {edge.task},
                    ![t].OutdatedChild = @ \ {edge.task},
                    ![edge.task].Upper = @ \ follower_uppers(st, t, edge.task)]
    ELSE IF edge.kind = "OutputDependency"
    THEN [st EXCEPT ![edge.task].OutputDependent = @ \ {t},
                    ![t].OutputDependency = @ \ {edge.task},
                    ![t].OutdatedOutputDependency = @ \ {edge.task}]
    ELSE IF edge.kind = "CellDependency"
    THEN [st EXCEPT ![edge.task].CellDependent = @ \ {<<edge.cell, t>>},
                    ![t].CellDependency = @ \ {<<edge.task, edge.cell>>},
                    ![t].OutdatedCellDependency = @ \ {<<edge.task, edge.cell>>}]
    ELSE IF edge.kind = "CollectiblesDependency"
    THEN [st EXCEPT ![edge.task].CollectiblesDependent = @ \ {t},
                    ![t].CollectiblesDependency = @ \ {edge.task},
                    ![t].OutdatedCollectiblesDependency = @ \ {edge.task}]
    ELSE IF edge.kind = "Collectible"
    THEN [st EXCEPT ![t].Collectible = @ \ {edge.task},
                    ![t].OutdatedCollectible = @ \ {edge.task}]
    ELSE make_tasks_dirty(st, {edge.task})

\* CleanupOldEdgesOperation::RemoveEdges: one edge per pass, then the
\* aggregation update
cleanup_old_edges(t) ==
    /\ th[Exec(t)].pc = "cleanup"
    /\ \E edge \in th[Exec(t)].old_edges :
        LET ctx == th[Exec(t)]
            lost == IF edge.kind = "Child"
                    THEN follower_uppers(storage, t, edge.task) ELSE {}
            st1 == cleanup_old_edge(storage, t, edge)
            st2 == [u \in Tasks |->
                       IF u \in lost
                       THEN apply_dirty_container_update(st1[u], edge.task, FALSE)
                       ELSE st1[u]]
            jobs == IF edge.kind = "RemovedCellDependent"
                    THEN make_tasks_dirty_jobs(storage, {edge.task})
                    ELSE Jobs("DataUpdate", {u \in lost :
                                DirtyContainer(st1[u]) # DirtyContainer(st2[u])})
            rest == [ctx EXCEPT !.old_edges = ctx.old_edges \ {edge}]
        IN /\ storage' = st2
           /\ th' = NotifyAll(data_update_events(st1, st2, lost),
                     [th EXCEPT ![Exec(t)] =
                        IF ctx.old_edges = {edge}
                        THEN Continue(rest, ctx.queue \o jobs, "complete")
                        ELSE [rest EXCEPT !.queue = ctx.queue \o jobs]])
    /\ UNCHANGED <<scheduled, events, calls>>
    /\ barrier_unchanged

\* A completion that never sees the task become clean.
aggregated_update_is_negative_never(task) == FALSE

\* aggregated_update.get(self.session_id) < 0: the task was dirty in the
\* session and has no dirty container, so it leaves the dirty containers.
aggregated_update_is_negative(task) ==
    is_dirty_in_session(task) /\ task.AggregatedDirtyContainerCount <= 0

\* A variant that leaves the task dirty.
new_dirty_state_dirty(session_dependent) == "Dirty"

\* task_execution_completed: new_dirty_state, Some(DirtyState {
\* clean_in_session: Some(self.session_id) }) if session_dependent, else None
new_dirty_state(session_dependent) ==
    IF session_dependent THEN "CleanInSession" ELSE "None"

\* task_execution_completed after the cleanup: remove InProgress, update the
\* dirty state, notify all_clean_event of a root that became clean
task_execution_completed_finish(t) ==
    /\ th[Exec(t)].pc = "complete"
    /\ LET task == storage[t]
           session_dependent == task.InProgress.session_dependent
           new_dirty == new_dirty_state(session_dependent)
           became_clean == aggregated_update_is_negative(task)
           fire == became_clean /\ task.AggregateRoot.ty # "None"
           e == task.AggregateRoot.all_clean_event
       IN /\ storage' = [storage EXCEPT
                ![t].InProgress = NoInProgress,
                ![t].Dirty = new_dirty,
                ![t].AggregateRoot =
                    IF fire /\ task.AggregateRoot.ty = "CachedActiveUntilClean"
                    THEN NoRoot ELSE @]
          /\ th' = [(IF fire THEN Notify(e, th) ELSE th) EXCEPT ![Exec(t)] =
                      [@ EXCEPT !.pc = "notify",
                                !.done_event = task.InProgress.done_event,
                                !.queue = IF became_clean
                                          THEN <<DataUpdate(t)>> ELSE <<>>]]
    /\ UNCHANGED <<scheduled, events, calls>>
    /\ barrier_unchanged

\* task_execution_completed: done_event.notify(usize::MAX), then
\* AggregationUpdateQueue::run(data_update); return false
task_execution_completed_notify(t) ==
    /\ th[Exec(t)].pc = "notify"
    /\ th' = Notify(th[Exec(t)].done_event,
                [th EXCEPT ![Exec(t)] =
                    Continue(IdleContext, th[Exec(t)].queue, "idle")])
    /\ UNCHANGED <<storage, scheduled, events, calls>>
    /\ barrier_unchanged

\* ------------------------------------------------------------------------
\* Part III: task creation (get_or_create_persistent_task,
\* get_or_create_transient_task)
\* ------------------------------------------------------------------------
\* Threads that create tasks.
NumCallers == 2
\* CachedTaskType values called over a run.
NumTaskTypes == 4
\* get_or_create calls over a run.
MaxCreateCalls == 3
\* Width of a TaskId in the model (the code's is 32).
TaskIdBits == 4

\* The top bit of a TaskId marks a transient task.
TRANSIENT_TASK_BIT == Pow2(TaskIdBits - 1)

Callers == 1..NumCallers
TaskTypes == 1..NumTaskTypes
NoTaskId == 0
NoTaskType == 0

\* Whether a task type is called through get_or_create_transient_task (its
\* function or one of its arguments is transient): the even types here.
IsTransientType(ty) == ty % 2 = 0

\* TaskId::is_transient
is_transient(task_id) == task_id >= TRANSIENT_TASK_BIT

\* The task cache the backing storage was opened with: task type 1 was
\* persisted as task 1 by an earlier session.
BackingTaskCache == {<<1, 1>>}

\* LmdbBackingStorage::forward_lookup_task_cache
forward_lookup_task_cache(task_type) ==
    IF \E e \in BackingTaskCache : e[1] = task_type
    THEN (CHOOSE e \in BackingTaskCache : e[1] = task_type)[2]
    ELSE NoTaskId

\* LmdbBackingStorage::reverse_lookup_task_cache
reverse_lookup_task_cache(task_id) ==
    IF \E e \in BackingTaskCache : e[2] = task_id
    THEN (CHOOSE e \in BackingTaskCache : e[2] = task_id)[1]
    ELSE NoTaskType

\* LmdbBackingStorage::next_free_task_id
next_free_task_id == 2

\* The task created by create_transient_task before the run: it took the
\* first id of the transient factory.
RootTask == TRANSIENT_TASK_BIT

\* IdFactoryWithReuse::new(start, max)
IdFactoryWithReuse(start, max) == [next |-> start, max |-> max, free |-> {}]

\* IdFactoryWithReuse::get: the ids a call can return, a reused id if there
\* is one and the next fresh id otherwise.
get_ids(factory) ==
    IF factory.free # {} THEN factory.free
    ELSE IF factory.next <= factory.max THEN {factory.next}
    ELSE {}

\* IdFactoryWithReuse::get: the factory after it returned id.
get(factory, id) ==
    IF id \in factory.free
    THEN [factory EXCEPT !.free = @ \ {id}]
    ELSE [factory EXCEPT !.next = @ + 1]

\* IdFactoryWithReuse::reuse
reuse(factory, id) == [factory EXCEPT !.free = @ \cup {id}]

\* BiMap::lookup_forward
lookup_forward(cache, task_type) == cache[task_type]

\* BiMap::lookup_reverse
lookup_reverse(cache, task_id) ==
    IF \E ty \in TaskTypes : cache[ty] = task_id
    THEN CHOOSE ty \in TaskTypes : cache[ty] = task_id
    ELSE NoTaskType

\* BiMap::try_insert: Err(existing id) when the key is present, and the
\* map is unchanged then.
try_insert(cache, task_type, task_id) ==
    IF cache[task_type] # NoTaskId THEN cache
    ELSE [cache EXCEPT ![task_type] = task_id]

\* lookup_task_type: the task cache after the call; a type found in the
\* backing storage only is inserted into the task cache.
lookup_task_type(cache, task_id) ==
    IF lookup_reverse(cache, task_id) # NoTaskType THEN cache
    ELSE IF reverse_lookup_task_cache(task_id) # NoTaskType
    THEN try_insert(cache, reverse_lookup_task_cache(task_id), task_id)
    ELSE cache

\* A variant without the check of the parent.
transient_call_panics_never(parent_task) == FALSE

\* get_or_create_transient_task: if !parent_task.is_transient() { panic!() }
transient_call_panics(parent_task) == ~is_transient(parent_task)

\* A variant that drops the id of the caller that lost the insertion.
lost_insert_leak(factory, task_id) == factory

\* get_or_create_*_task, Err(existing_task_id) of try_insert: the factory
\* after unsafe { factory.reuse(task_id) }
lost_insert(factory, task_id) == reuse(factory, task_id)

\* ConnectChildOperation::run: parent_task.add(Child { task: child })
add_child(edges, parent_task, child_task) ==
    edges \cup {<<parent_task, child_task>>}

\* The result of a call that panicked.
Panicked == -1

IdleCaller ==
    [pc |-> "idle", fn |-> "none", call |-> 0, task_type |-> NoTaskType,
     parent_task |-> NoTaskId, task_id |-> NoTaskId, result |-> NoTaskId]

InitCreate ==
    /\ task_cache = [ty \in TaskTypes |-> NoTaskId]
    /\ id_factory =
        [persisted |-> IdFactoryWithReuse(next_free_task_id, TRANSIENT_TASK_BIT - 1),
         transient |-> IdFactoryWithReuse(RootTask + 1, 2 * TRANSIENT_TASK_BIT - 1)]
    /\ task_cache_log = {}
    /\ child_edges = {}
    /\ cr = [c \in Callers |-> IdleCaller]
    /\ returned = {}
    /\ create_calls = 0

\* The tasks whose body can call a function: the restored task, the root
\* task, and every task created so far.
ParentTasks == {1, RootTask} \cup {r[2] : r \in returned}

create_unchanged == UNCHANGED <<barrier_vars, task_vars, aux_vars>>

\* The locals of a new call of caller c.
CreateCall(c, fn, task_type, parent_task) ==
    [IdleCaller EXCEPT !.fn = fn, !.call = create_calls + 1,
                       !.task_type = task_type, !.parent_task = parent_task]

\* connect_child(parent_task, task_id); return task_id
CreateReturn(c, call, task_id) ==
    /\ cr' = [cr EXCEPT ![c] = [call EXCEPT !.pc = "idle", !.result = task_id]]
    /\ child_edges' = add_child(child_edges, call.parent_task, task_id)
    /\ returned' = returned \cup {<<call.task_type, task_id>>}

\* get_or_create_persistent_task up to the read of the backing storage:
\* task_cache.lookup_forward(&task_type)
get_or_create_persistent_task_lookup(c, task_type, parent_task) ==
    /\ cr[c].pc = "idle"
    /\ create_calls < MaxCreateCalls
    /\ ~IsTransientType(task_type)
    /\ create_calls' = create_calls + 1
    /\ LET call == CreateCall(c, "get_or_create_persistent_task", task_type,
                              parent_task)
           task_id == lookup_forward(task_cache, task_type)
       IN IF task_id # NoTaskId
          THEN CreateReturn(c, call, task_id)
          ELSE /\ cr' = [cr EXCEPT ![c] = [call EXCEPT !.pc = "backing"]]
               /\ UNCHANGED <<child_edges, returned>>
    /\ UNCHANGED <<task_cache, id_factory, task_cache_log>>
    /\ create_unchanged

\* get_or_create_persistent_task: forward_lookup_task_cache(tx, &task_type),
\* then persisted_task_id_factory.get()
get_or_create_persistent_task_backing(c) ==
    /\ cr[c].pc = "backing"
    /\ LET task_id == forward_lookup_task_cache(cr[c].task_type)
       IN IF task_id # NoTaskId
          THEN /\ task_cache' = try_insert(task_cache, cr[c].task_type, task_id)
               /\ CreateReturn(c, cr[c], task_id)
               /\ UNCHANGED id_factory
          ELSE /\ \E id \in get_ids(id_factory.persisted) :
                    /\ id_factory' = [id_factory EXCEPT
                                        !.persisted = get(@, id)]
                    /\ cr' = [cr EXCEPT ![c].pc = "try_insert",
                                        ![c].task_id = id]
               /\ UNCHANGED <<task_cache, child_edges, returned>>
    /\ UNCHANGED <<task_cache_log, create_calls>>
    /\ create_unchanged

\* get_or_create_persistent_task: task_cache.try_insert(task_type, task_id)
get_or_create_persistent_task_insert(c) ==
    /\ cr[c].pc = "try_insert"
    /\ cr[c].fn = "get_or_create_persistent_task"
    /\ LET existing_task_id == lookup_forward(task_cache, cr[c].task_type)
       IN IF existing_task_id # NoTaskId
          THEN /\ id_factory' = [id_factory EXCEPT
                                    !.persisted = lost_insert(@, cr[c].task_id)]
               /\ task_cache_log' = task_cache_log
                                    \cup {<<cr[c].task_type, existing_task_id>>}
               /\ CreateReturn(c, [cr[c] EXCEPT !.task_id = NoTaskId],
                               existing_task_id)
               /\ UNCHANGED task_cache
          ELSE /\ task_cache' = try_insert(task_cache, cr[c].task_type,
                                           cr[c].task_id)
               /\ task_cache_log' = task_cache_log
                                    \cup {<<cr[c].task_type, cr[c].task_id>>}
               /\ CreateReturn(c, [cr[c] EXCEPT !.task_id = NoTaskId],
                               cr[c].task_id)
               /\ UNCHANGED id_factory
    /\ UNCHANGED create_calls
    /\ create_unchanged

\* get_or_create_transient_task up to transient_task_id_factory.get(): the
\* check of the parent, then task_cache.lookup_forward(&task_type)
get_or_create_transient_task_lookup(c, task_type, parent_task) ==
    /\ cr[c].pc = "idle"
    /\ create_calls < MaxCreateCalls
    /\ IsTransientType(task_type)
    /\ create_calls' = create_calls + 1
    /\ LET call == CreateCall(c, "get_or_create_transient_task", task_type,
                              parent_task)
           task_id == lookup_forward(task_cache, task_type)
       IN IF transient_call_panics(parent_task)
          THEN /\ task_cache' = lookup_task_type(task_cache, parent_task)
               /\ cr' = [cr EXCEPT ![c] = [call EXCEPT !.result = Panicked]]
               /\ UNCHANGED <<id_factory, child_edges, returned>>
          ELSE IF task_id # NoTaskId
          THEN /\ CreateReturn(c, call, task_id)
               /\ UNCHANGED <<task_cache, id_factory>>
          ELSE /\ \E id \in get_ids(id_factory.transient) :
                    /\ id_factory' = [id_factory EXCEPT
                                        !.transient = get(@, id)]
                    /\ cr' = [cr EXCEPT ![c] = [call EXCEPT
                                        !.pc = "try_insert", !.task_id = id]]
               /\ UNCHANGED <<task_cache, child_edges, returned>>
    /\ UNCHANGED task_cache_log
    /\ create_unchanged

\* get_or_create_transient_task: task_cache.try_insert(task_type, task_id)
get_or_create_transient_task_insert(c) ==
    /\ cr[c].pc = "try_insert"
    /\ cr[c].fn = "get_or_create_transient_task"
    /\ LET existing_task_id == lookup_forward(task_cache, cr[c].task_type)
       IN IF existing_task_id # NoTaskId
          THEN /\ id_factory' = [id_factory EXCEPT
                                    !.transient = lost_insert(@, cr[c].task_id)]
               /\ CreateReturn(c, [cr[c] EXCEPT !.task_id = NoTaskId],
                               existing_task_id)
               /\ UNCHANGED task_cache
          ELSE /\ task_cache' = try_insert(task_cache, cr[c].task_type,
                                           cr[c].task_id)
               /\ CreateReturn(c, [cr[c] EXCEPT !.task_id = NoTaskId],
                               cr[c].task_id)
               /\ UNCHANGED id_factory
    /\ UNCHANGED <<task_cache_log, create_calls>>
    /\ create_unchanged

NextCreate ==
    \/ \E c \in Callers, task_type \in TaskTypes, parent_task \in ParentTasks :
            get_or_create_persistent_task_lookup(c, task_type, parent_task)
    \/ \E c \in Callers : get_or_create_persistent_task_backing(c)
    \/ \E c \in Callers : get_or_create_persistent_task_insert(c)
    \/ \E c \in Callers, task_type \in TaskTypes, parent_task \in ParentTasks :
            get_or_create_transient_task_lookup(c, task_type, parent_task)
    \/ \E c \in Callers : get_or_create_transient_task_insert(c)

\* The read API, called by the threads and by the bodies of the tasks.
NextRead ==
    \/ \E c \in Contexts, t \in Tasks, consistency \in Consistencies :
            try_read_task_output(c, t, consistency)
    \/ \E c \in Contexts : try_read_task_output_relock(c)
    \/ \E c \in Contexts : try_read_task_output_dependency(c)
    \/ \E c \in Contexts, t \in Tasks, cell \in CellIndexes :
            try_read_task_cell(c, t, cell)
    \/ \E c \in Contexts : try_read_task_cell_dependency(c)
    \/ \E c \in Contexts, t \in Tasks : read_task_collectibles(c, t)
    \/ \E c \in Contexts : read_task_collectibles_relock(c)
    \/ \E c \in Contexts : read_task_collectibles_dependency(c)

\* Invalidation and the aggregation update of whatever operation runs it.
NextInvalidate ==
    \/ \E i \in Threads, t \in Tasks : invalidate_task(i, t)
    \/ \E c \in Contexts : invalidate_make_dirty(c)
    \/ \E c \in Contexts : aggregation_update(c)

\* The execution of the tasks.
NextExecute ==
    \/ \E t \in Tasks : try_start_task_execution(t)
    \/ \E t \in Tasks, cell \in CellIndexes, has_content \in BOOLEAN :
            update_task_cell(t, cell, has_content)
    \/ \E t \in Tasks : mark_own_task_as_session_dependent(t)
    \/ \E p, c \in Tasks : connect_child(p, c)
    \/ \E p \in Tasks : connect_child_schedule_task(p)
    \/ \E t \in Tasks, output \in Outputs : task_execution_result(t, output)
    \/ \E t \in Tasks : update_output_make_dependent_tasks_dirty(t)
    \/ \E t \in Tasks : update_output_ensure_unfinished_children_dirty(t)
    \/ \E t \in Tasks, max_index \in {NoMaxIndex} \cup CellIndexes,
          indexed \in BOOLEAN :
            task_execution_completed(t, max_index, indexed)
    \/ \E t \in Tasks : cleanup_old_edges(t)
    \/ \E t \in Tasks : task_execution_completed_finish(t)
    \/ \E t \in Tasks : task_execution_completed_notify(t)

Next == NextRead \/ NextInvalidate \/ NextExecute

\* The execution of tasks whose bodies read outputs and return values,
\* errors or panics, in runs where an invalidation either is make_task_dirty
\* or follows the stale-execution rule.
NextStale ==
    \/ \E c \in Contexts, t \in Tasks, consistency \in Consistencies :
            try_read_task_output(c, t, consistency)
    \/ \E c \in Contexts : try_read_task_output_relock(c)
    \/ \E c \in Contexts : try_read_task_output_dependency(c)
    \/ \E i \in Threads, t \in Tasks : invalidate_task(i, t)
    \/ \E c \in Contexts : invalidate_make_dirty(c)
    \/ \E c \in Contexts : invalidate_make_dirty_stale(c)
    \/ \E c \in Contexts : aggregation_update(c)
    \/ \E t \in Tasks : try_start_task_execution(t)
    \/ \E t \in Tasks : mark_own_task_as_session_dependent(t)
    \/ \E t \in Tasks, output \in Results : task_execution_result(t, output)
    \/ \E t \in Tasks : update_output_make_dependent_tasks_dirty(t)
    \/ \E t \in Tasks, max_index \in {NoMaxIndex} \cup CellIndexes,
          indexed \in BOOLEAN :
            task_execution_completed(t, max_index, indexed)
    \/ \E t \in Tasks : cleanup_old_edges(t)
    \/ \E t \in Tasks : task_execution_completed_finish(t)
    \/ \E t \in Tasks : task_execution_completed_notify(t)

\* The execution of tasks whose bodies read and write cells only.
NextCells ==
    \/ \E c \in Contexts, t \in Tasks, cell \in CellIndexes :
            try_read_task_cell(c, t, cell)
    \/ \E c \in Contexts : try_read_task_cell_dependency(c)
    \/ \E c \in Contexts : invalidate_make_dirty(c)
    \/ \E c \in Contexts : aggregation_update(c)
    \/ \E t \in Tasks : try_start_task_execution(t)
    \/ \E t \in Tasks, cell \in CellIndexes, has_content \in BOOLEAN :
            update_task_cell(t, cell, has_content)
    \/ \E t \in Tasks, output \in Outputs : task_execution_result(t, output)
    \/ \E t \in Tasks, max_index \in {NoMaxIndex} \cup CellIndexes,
          indexed \in BOOLEAN :
            task_execution_completed(t, max_index, indexed)
    \/ \E t \in Tasks : cleanup_old_edges(t)
    \/ \E t \in Tasks : task_execution_completed_finish(t)
    \/ \E t \in Tasks : task_execution_completed_notify(t)

\* ------------------------------------------------------------------------
\* Part IV: sessions over one backing store
\* ------------------------------------------------------------------------
NoSessionId == 0

InitSession ==
    /\ meta_session_id = NoSessionId
    /\ session_running = FALSE
    /\ sessions = <<>>

session_unchanged ==
    UNCHANGED <<barrier_vars, task_vars, create_vars, cache_vars, transient_tasks,
                save_vars>>

\* LmdbBackingStorage::next_session_id: get reads META_KEY_SESSION_ID in a
\* transaction; SessionId::from(get(self).unwrap_or(0) + 1). get is Err when
\* the key is absent and when the transaction or the read fails (read_ok).
next_session_id_first(meta, read_ok) == 1

next_session_id(meta, read_ok) ==
    (IF read_ok /\ meta # NoSessionId THEN meta ELSE 0) + 1

\* TurboTasksBackendInner::new: session_id: backing_storage.next_session_id().
session_start(read_ok) ==
    /\ ~session_running
    /\ Len(sessions) < MaxSessions
    /\ session_running' = TRUE
    /\ sessions' = Append(sessions,
                          [id |-> next_session_id(meta_session_id, read_ok),
                           read_ok |-> read_ok, saved |-> FALSE])
    /\ UNCHANGED meta_session_id
    /\ session_unchanged

\* snapshot(): save_snapshot(self.session_id, ..) is called only if one of the
\* taken logs is non-empty (new_items); LmdbBackingStorage::save_snapshot puts
\* session_id under META_KEY_SESSION_ID and commits, or fails with nothing
\* written (save_ok).
session_snapshot(new_items, save_ok) ==
    /\ session_running
    /\ LET cur == sessions[Len(sessions)]
       IN IF new_items /\ save_ok
          THEN /\ meta_session_id' = cur.id
               /\ sessions' = [sessions EXCEPT ![Len(sessions)].saved = TRUE]
          ELSE UNCHANGED <<meta_session_id, sessions>>
    /\ UNCHANGED session_running
    /\ session_unchanged

\* The host process ends (stop, exit or crash): the backend is gone, the store
\* stays.
session_end ==
    /\ session_running
    /\ session_running' = FALSE
    /\ UNCHANGED <<meta_session_id, sessions>>
    /\ session_unchanged

NextSession ==
    \/ \E read_ok \in BOOLEAN : session_start(read_ok)
    \/ \E new_items \in BOOLEAN, save_ok \in BOOLEAN :
            session_snapshot(new_items, save_ok)
    \/ session_end

\* ------------------------------------------------------------------------
\* Part V: the startup cache layer
\* ------------------------------------------------------------------------
\* A key is (key space, key bytes); the ByKeySpace maps are one map over
\* these pairs. Key spaces by the number write_key_value_pair writes:
\* 1 = TaskMeta, 2 = TaskData. A value is represented by its length in
\* bytes, which is all that the sizes depend on.
KeySpaces == 1..2
CacheKeys == {<<1, 1>>, <<1, 2>>, <<2, 1>>}
ValueLens == {3}

\* Bytes of a key (an integer key).
key_len(key) == 4

NoValue == -1
\* The None of cache: Option<Vec<u8>> and a delete of the write batch.
Deleted == 0

\* const CACHE_SIZE_LIMIT: usize = 100 * 1024 * 1024, scaled down.
CACHE_SIZE_LIMIT == 40
PAIR_HEADER_SIZE == 9

\* cache_size.fetch_add is followed while cache_size is below this.
MaxCacheSize == 60

EmptyMap == [key \in CacheKeys |-> NoValue]

InitCache ==
    /\ database = EmptyMap
    /\ batch = EmptyMap
    /\ fresh_db = TRUE
    /\ cache_size = 0
    /\ startup_cache = EmptyMap
    /\ restored_map = EmptyMap
    /\ cache_file = EmptyMap

cache_unchanged ==
    UNCHANGED <<barrier_vars, task_vars, create_vars, session_vars, transient_tasks,
                save_vars>>

\* write_key_value_pair: Ok(9 + key_len + value_len).
write_key_value_pair(key, value) == 9 + key_len(key) + value

RECURSIVE SumPairs(_, _)
SumPairs(map, keys) ==
    IF keys = {} THEN 0
    ELSE LET key == CHOOSE k \in keys : TRUE
         IN (IF map[key] \in {NoValue, Deleted} THEN 0
             ELSE write_key_value_pair(key, map[key]))
            + SumPairs(map, keys \ {key})

\* Bytes of a file holding the records of map.
FileSize(map) == SumPairs(map, CacheKeys)

\* StartupCacheLayer::new: the process starts on the database; unless the
\* database is fresh, the file at path is read into restored_map.
startup_cache_new(fresh) ==
    /\ fresh => database = EmptyMap
    /\ fresh_db' = fresh
    /\ restored_map' = IF fresh THEN EmptyMap ELSE cache_file
    /\ startup_cache' = EmptyMap
    /\ cache_size' = 0
    /\ batch' = EmptyMap
    /\ UNCHANGED <<database, cache_file>>
    /\ cache_unchanged

\* StartupCacheLayer::get: the value returned. A fresh database is read
\* directly; otherwise the entry of restored_map is returned if there is one,
\* else what the database holds.
startup_cache_get_value(key) ==
    IF fresh_db THEN database[key]
    ELSE IF restored_map[key] # NoValue THEN restored_map[key]
    ELSE database[key]

\* StartupCacheLayer::get.
startup_cache_get(key) ==
    /\ cache_size < MaxCacheSize
    /\ IF fresh_db
       THEN UNCHANGED <<cache_size, startup_cache>>
       ELSE LET value == startup_cache_get_value(key)
                size == cache_size
            IN IF value # NoValue
               THEN /\ cache_size' = cache_size + key_len(key) + value + PAIR_HEADER_SIZE
                    /\ startup_cache' =
                            IF size < CACHE_SIZE_LIMIT /\ startup_cache[key] = NoValue
                            THEN [startup_cache EXCEPT ![key] = value]
                            ELSE startup_cache
               ELSE UNCHANGED <<cache_size, startup_cache>>
    /\ UNCHANGED <<database, batch, fresh_db, restored_map, cache_file>>
    /\ cache_unchanged

\* StartupCacheWriteBatch::put.
startup_cache_put(key, value) ==
    /\ startup_cache' = IF ~fresh_db THEN [startup_cache EXCEPT ![key] = value]
                        ELSE startup_cache
    /\ batch' = [batch EXCEPT ![key] = value]
    /\ UNCHANGED <<database, fresh_db, cache_size, restored_map, cache_file>>
    /\ cache_unchanged

\* StartupCacheWriteBatch::delete.
startup_cache_delete(key) ==
    /\ startup_cache' = IF ~fresh_db THEN [startup_cache EXCEPT ![key] = Deleted]
                        ELSE startup_cache
    /\ batch' = [batch EXCEPT ![key] = Deleted]
    /\ UNCHANGED <<database, fresh_db, cache_size, restored_map, cache_file>>
    /\ cache_unchanged

\* The second loop of commit over one key space: the entries of restored_map
\* in the order keys, written behind pos bytes; an entry is written if
\* startup_cache has no entry of the key and pos + size < CACHE_SIZE_LIMIT, and the
\* loop over the key space breaks when pos + 24 >= CACHE_SIZE_LIMIT after a
\* write.
RECURSIVE write_restored(_, _, _)
write_restored(keys, pos, file) ==
    IF keys = <<>> THEN [pos |-> pos, file |-> file]
    ELSE LET key == Head(keys)
             value == restored_map[key]
             size == key_len(key) + value + PAIR_HEADER_SIZE
         IN IF startup_cache[key] = NoValue /\ pos + size < CACHE_SIZE_LIMIT
            THEN LET next_pos == pos + write_key_value_pair(key, value)
                     f == [file EXCEPT ![key] = value]
                 IN IF next_pos + 24 >= CACHE_SIZE_LIMIT
                    THEN [pos |-> next_pos, file |-> f]
                    ELSE write_restored(Tail(keys), next_pos, f)
            ELSE write_restored(Tail(keys), pos, file)

\* The orders in which a map iterates over its entries of key space ks.
IterationOrders(map, ks) ==
    LET keys == {key \in CacheKeys : key[1] = ks /\ map[key] # NoValue}
    IN {order \in [1..Cardinality(keys) -> keys] :
            \A i, j \in 1..Cardinality(keys) : i # j => order[i] # order[j]}

\* StartupCacheWriteBatch::commit: the batch is committed to the database;
\* unless the database is fresh, the file is rebuilt: every Some entry of
\* startup_cache first, then the entries of restored_map, key space by key
\* space.
startup_cache_commit ==
    /\ database' = [key \in CacheKeys |->
                        IF batch[key] = NoValue THEN database[key]
                        ELSE IF batch[key] = Deleted THEN NoValue
                        ELSE batch[key]]
    /\ batch' = EmptyMap
    /\ IF fresh_db
       THEN UNCHANGED cache_file
       ELSE \E o1 \in IterationOrders(restored_map, 1),
               o2 \in IterationOrders(restored_map, 2) :
                LET cached == [key \in CacheKeys |->
                                  IF startup_cache[key] = Deleted THEN NoValue
                                  ELSE startup_cache[key]]
                    r1 == write_restored(o1, FileSize(cached), cached)
                    r2 == write_restored(o2, r1.pos, r1.file)
                IN cache_file' = r2.file
    /\ UNCHANGED <<fresh_db, cache_size, startup_cache, restored_map>>
    /\ cache_unchanged

NextCache ==
    \/ \E fresh \in BOOLEAN : startup_cache_new(fresh)
    \/ \E key \in CacheKeys : startup_cache_get(key)
    \/ \E key \in CacheKeys, value \in ValueLens : startup_cache_put(key, value)
    \/ \E key \in CacheKeys : startup_cache_delete(key)
    \/ startup_cache_commit

\* ------------------------------------------------------------------------
\* Part VI: the task data of the backing store
\* ------------------------------------------------------------------------
NumSaveTasks == 2
NumShards == 2
NumItemKeys == 2
MaxUpdates == 3
MaxSaves == 2

SaveCategories == {"Meta", "Data"}
SaveTasks == 1..NumSaveTasks
Shards == 1..NumShards
ItemKeys == 1..NumItemKeys
NoItem == 0
\* Value 1 serializes; value 2 is the value of an optional item that does not.
ItemValues == {1, 2}

NoItems == [key \in ItemKeys |-> NoItem]

\* No task has persistent items, nothing is stored and the logs are empty.
InitSave ==
    /\ task_items = [category \in SaveCategories |-> [task \in SaveTasks |-> NoItems]]
    /\ task_db = task_items
    /\ persisted_storage_log =
          [category \in SaveCategories |-> [shard \in Shards |-> <<>>]]
    /\ put_tasks = {}
    /\ save_calls = [updates |-> 0, saves |-> 0, last |-> "none"]

\* create_transient_task(TransientTaskType::Root) was called for task 1.
InitTransient == transient_tasks = [t \in Tasks |-> IF t = 1 THEN "Root" ELSE "None"]

Init ==
    InitBarrier /\ InitStorage /\ InitCreate /\ InitSession /\ InitCache /\ InitSave
    /\ InitTransient
    /\ budget = MaxCalls

\* The same start with the call budget of the runs of NextCells.
InitCells ==
    InitBarrier /\ InitStorage /\ InitCreate /\ InitSession /\ InitCache /\ InitSave
    /\ InitTransient
    /\ budget = MaxCellCalls

Spec == Init /\ [][Next]_vars

\* The calls of runs in which tasks read outputs only, connect children
\* and are invalidated: no task body waits for a cell that is never written.
CallsAllClean ==
    \/ \E c \in Contexts, t \in Tasks, consistency \in Consistencies :
            try_read_task_output(c, t, consistency)
    \/ \E i \in Threads, t \in Tasks : invalidate_task(i, t)
    \/ \E p, c \in Tasks : connect_child(p, c)

\* The steps the backend and the host take on their own: the steps inside a
\* backend call or an operation, the start of a scheduled task, and the
\* return of a task body that awaits nothing.
Progress ==
    \/ \E c \in Contexts : try_read_task_output_relock(c)
    \/ \E c \in Contexts : try_read_task_output_dependency(c)
    \/ \E c \in Contexts : invalidate_make_dirty(c)
    \/ \E c \in Contexts : aggregation_update(c)
    \/ \E t \in Tasks : try_start_task_execution(t)
    \/ \E p \in Tasks : connect_child_schedule_task(p)
    \/ \E t \in Tasks, output \in Outputs : task_execution_result(t, output)
    \/ \E t \in Tasks : update_output_make_dependent_tasks_dirty(t)
    \/ \E t \in Tasks : update_output_ensure_unfinished_children_dirty(t)
    \/ \E t \in Tasks, max_index \in {NoMaxIndex} \cup CellIndexes,
          indexed \in BOOLEAN :
            task_execution_completed(t, max_index, indexed)
    \/ \E t \in Tasks : cleanup_old_edges(t)
    \/ \E t \in Tasks : task_execution_completed_finish(t)
    \/ \E t \in Tasks : task_execution_completed_notify(t)

NextAllClean == CallsAllClean \/ Progress

\* The runs of NextAllClean under the scheduling of the host: a step the
\* backend or the host can take is taken eventually.
SpecAllClean == Init /\ [][NextAllClean]_vars /\ WF_vars(Progress)

SpecBarrier == Init /\ [][NextBarrier]_vars

\* The steps of worker w once its operation is started: every step up to the
\* drop of its OperationGuard. Starting an operation is the caller's choice.
WorkerProgress(w) ==
    \/ start_operation_lock(w)
    \/ start_operation_wake(w)
    \/ operation_run(w)
    \/ operation_suspend_point_check(w)
    \/ operation_suspend_point_lock(w)
    \/ operation_suspend_point_wake(w)
    \/ operation_step(w)
    \/ OperationGuard_drop(w)

\* The steps of snapshot() once it is called.
CoordinatorProgress ==
    \/ snapshot_fetch_or
    \/ snapshot_wait_check
    \/ snapshot_wait_park
    \/ snapshot_wake
    \/ snapshot_collect
    \/ snapshot_take
    \/ snapshot_clear
    \/ snapshot_save

\* The barrier under fair scheduling: a thread that can take a step again
\* and again takes it (threads are scheduled, and the mutex is handed to a
\* thread that keeps asking for it).
SpecBarrierFair ==
    /\ Init
    /\ [][NextBarrier]_vars
    /\ \A w \in Workers : SF_vars(WorkerProgress(w))
    /\ SF_vars(CoordinatorProgress)

SpecCreate == Init /\ [][NextCreate]_vars

SpecStale == Init /\ [][NextStale]_vars

SpecCells == InitCells /\ [][NextCells]_vars

SpecSession == Init /\ [][NextSession]_vars

SpecCache == Init /\ [][NextCache]_vars

\* ------------------------------------------------------------------------
\* Part I: properties of the snapshot barrier
\* ------------------------------------------------------------------------
\* The interval of snapshot() from observing in_progress_operations ==
\* SNAPSHOT_REQUESTED_BIT until snapshot_requested is cleared.
BarrierInterval == sn_pc \in {"collect", "take", "clear"}

\* Positions of a thread that has no operation or is blocked in start_operation.
NotStarted == {"idle", "so_lock", "so_parked", "so_woken"}
\* Positions of a thread whose operation is parked in operation_suspend_point.
Parked == {"sp_parked", "sp_woken"}

\* C1: while snapshot() collects the suspended operations and takes the
\* logs, no operation executes a step: every started and unfinished operation
\* is parked in operation_suspend_point and is in suspended_operations, and
\* every other thread has no operation or is blocked in start_operation.
C1_BarrierExclusion ==
    BarrierInterval =>
        \A w \in Workers :
            /\ pc[w] \in NotStarted \cup Parked
            /\ pc[w] \in Parked => op[w] \in suspended_operations

\* A barrier interval with one operation parked at its suspend point and one
\* thread blocked in start_operation.
C1_Witness ==
    /\ sn_pc = "take"
    /\ \E w1, w2 \in Workers : pc[w1] = "sp_parked" /\ pc[w2] = "so_parked"

\* C2: every snapshot that is taken persists the operations that were
\* mid-flight at the barrier (its suspended operations), also when the
\* drained logs are empty.
C2_SuspendedOperationsPersisted ==
    [][(sn_pc = "save" /\ sn_pc' = "idle" /\ sn_result' # "None")
          => sn_suspended \subseteq persisted_operations']_vars

\* C3: no record drained from the logs is dropped without having been
\* persisted: every record ever appended is persisted, still in the logs, or
\* held by the running snapshot attempt, also after save_snapshot failed.
C3_NoRecordDropped ==
    written \subseteq (persisted_records \cup AllRecords(logs) \cup AllRecords(sn_logs))

\* ------------------------------------------------------------------------
\* Part II: properties of the read path
\* ------------------------------------------------------------------------
\* The step starts a backend call of context c.
Started(c) == calls' = calls + 1 /\ ~Awaiting(c) /\ th'[c] # th[c]

\* The step is the one in which the try_read_task_output call of context c
\* takes the Output of the task as the value it returns.
GetsValue(c) ==
    /\ th'[c].fn = "try_read_task_output"
    /\ th'[c].result.kind = "value"
    /\ Started(c) \/ th[c].result.kind # "value"

\* The step is the one in which the try_read_task_output call of context c
\* gets its result.
Decides(c) ==
    /\ th'[c].fn = "try_read_task_output"
    /\ th'[c].result.kind # "none"
    /\ Started(c) \/ th[c].result.kind = "none"

\* The step is the one in which a strongly consistent try_read_task_output
\* call of context c, holding the task lock, looks at the dirty state.
StrongChecks(c) ==
    /\ th'[c].fn = "try_read_task_output"
    /\ th'[c].consistency = "Strong"
    /\ \/ /\ Started(c)
          /\ storage[th'[c].task].InProgress.state = "None"
          /\ storage[th'[c].task].AggregationNumber = "Root"
       \/ th[c].pc = "relock" /\ th'[c].pc # "relock"

\* C4: try_read_task_output on a task that carries InProgress returns a
\* listener on the done_event of that item, no value, and records no edge;
\* an output written by an execution is returned only after
\* task_execution_completed has removed InProgress and notified done_event.
C4_InProgressReadListens ==
    [][\A c \in Contexts :
        /\ GetsValue(c) =>
              /\ storage[th'[c].task].InProgress.state = "None"
              /\ ~th[Exec(th'[c].task)].output_written
        /\ (Started(c) /\ th'[c].fn = "try_read_task_output"
                /\ storage[th'[c].task].InProgress.state # "None") =>
              /\ th'[c].result =
                    Listener(storage[th'[c].task].InProgress.done_event, "done")
              /\ storage' = storage]_vars

Quiescent == \A c \in Contexts : th[c].pc \in {"idle", "running", "resulted"}

\* C7: in quiescent states every dependency edge is recorded on both ends:
\* R has OutputDependency T iff T has OutputDependent R, R has
\* CellDependency (T, cell) iff T has CellDependent (cell, R), and R has
\* CollectiblesDependency T iff T has CollectiblesDependent R.
C7_EdgeSymmetry ==
    Quiescent =>
        \A r, t \in Tasks :
            /\ t \in storage[r].OutputDependency <=> r \in storage[t].OutputDependent
            /\ t \in storage[r].CollectiblesDependency
                  <=> r \in storage[t].CollectiblesDependent
            /\ \A cell \in CellIndexes :
                  <<t, cell>> \in storage[r].CellDependency
                      <=> <<cell, r>> \in storage[t].CellDependent

\* A quiescent state in which a task that has completed holds an output
\* edge and a cell edge.
C7_Witness ==
    /\ Quiescent
    /\ \E r, t \in Tasks :
          /\ th[Exec(r)].pc = "idle"
          /\ storage[r].InProgress.state = "None"
          /\ t \in storage[r].OutputDependency
          /\ r \in storage[t].OutputDependent

\* C8: a try_read_task_output that finds no InProgress and no Output (and
\* is not a strongly consistent read of a dirty task) adds InProgress
\* Scheduled with a fresh done_event, schedules the task once and returns a
\* listener on that event; a reader that finds the task Scheduled gets a
\* listener on the same done_event and the task is not scheduled again.
C8_ScheduledOnce ==
    [][\A c \in Contexts :
        LET t == th'[c].task
            task == storage[t]
            dirty == task.Dirty = "Dirty" \/ task.AggregatedDirtyContainerCount > 0
        IN
        /\ (Decides(c) /\ task.InProgress.state = "None" /\ task.Output = NoOutput
                /\ ~(th'[c].consistency = "Strong" /\ dirty)) =>
              /\ storage'[t].InProgress.state = "Scheduled"
              /\ storage'[t].InProgress.done_event = Event(t, events[t] + 1)
              /\ scheduled'[t] = scheduled[t] + 1
              /\ th'[c].result = Listener(storage'[t].InProgress.done_event, "done")
        /\ (Decides(c) /\ task.InProgress.state = "Scheduled") =>
              /\ th'[c].result = Listener(task.InProgress.done_event, "done")
              /\ storage'[t].InProgress = task.InProgress
              /\ scheduled' = scheduled]_vars

\* C9 as stated: try_read_task_cell returns an error whenever the task has
\* no CellTypeMaxIndex or the index is above it, and then registers no
\* InProgressCell and schedules nothing.
C9_OutOfRangeErrors ==
    [][\A c \in Contexts :
        LET t == th'[c].task
            task == storage[t]
        IN (Started(c) /\ th'[c].fn = "try_read_task_cell"
                /\ (task.CellTypeMaxIndex = NoMaxIndex
                        \/ th'[c].cell > task.CellTypeMaxIndex)) =>
              /\ th'[c].result = Error
              /\ storage' = storage
              /\ scheduled' = scheduled]_vars

\* C9 amended: try_read_task_cell on a cell that has no CellData returns an
\* error whenever the task has no CellTypeMaxIndex or the index is above
\* it, and then registers no InProgressCell and schedules nothing.
C9_AbsentOutOfRangeErrors ==
    [][\A c \in Contexts :
        LET t == th'[c].task
            task == storage[t]
        IN (Started(c) /\ th'[c].fn = "try_read_task_cell"
                /\ th'[c].cell \notin task.CellData
                /\ (task.CellTypeMaxIndex = NoMaxIndex
                        \/ th'[c].cell > task.CellTypeMaxIndex)) =>
              /\ th'[c].result = Error
              /\ storage' = storage
              /\ scheduled' = scheduled]_vars

\* A read of a cell that does not exist was answered with an error while
\* the task is executing and has written another cell.
C9_Witness ==
    \E c \in Contexts :
        /\ th[c].fn = "try_read_task_cell"
        /\ th[c].result.kind = "error"
        /\ storage[th[c].task].InProgress.state = "InProgress"
        /\ storage[th[c].task].CellData # {}
        /\ th[c].cell \notin storage[th[c].task].CellData

\* C10: a try_read_task_cell of a cell in range that has no CellData
\* returns a listener on the one event registered for the cell: it
\* registers an InProgressCell only when the cell has none, and schedules
\* the task only when the task has no InProgress, which it never replaces.
C10_OneInProgressCell ==
    [][\A c \in Contexts :
        LET t == th'[c].task
            cell == th'[c].cell
            task == storage[t]
        IN (Started(c) /\ th'[c].fn = "try_read_task_cell") =>
              /\ \A x \in CellIndexes : Cardinality(storage'[t].InProgressCell[x]) <= 1
              /\ scheduled'[t] > scheduled[t] => task.InProgress.state = "None"
              /\ task.InProgress.state # "None" => storage'[t].InProgress = task.InProgress
              /\ (cell \notin task.CellData /\ task.CellTypeMaxIndex # NoMaxIndex
                      /\ cell <= task.CellTypeMaxIndex) =>
                    /\ th'[c].result.kind = "listener"
                    /\ storage'[t].InProgressCell[cell] = {th'[c].result.event}
                    /\ task.InProgressCell[cell] # {} =>
                          storage'[t].InProgressCell = task.InProgressCell
                    /\ (task.InProgressCell[cell] = {}
                            /\ task.InProgress.state = "None") =>
                          /\ storage'[t].InProgress.state = "Scheduled"
                          /\ scheduled'[t] = scheduled[t] + 1]_vars

\* Two readers listen on the one event of a cell, and the task was
\* scheduled once for them.
C10_Witness ==
    \E c1, c2 \in Contexts :
        /\ c1 # c2
        /\ th[c1].fn = "try_read_task_cell" /\ th[c2].fn = "try_read_task_cell"
        /\ th[c1].result.kind = "listener" /\ th[c1].result.note = "cell"
        /\ th[c2].result = th[c1].result
        /\ th[c1].task = th[c2].task
        /\ storage[th[c1].task].InProgressCell[th[c1].cell] = {th[c1].result.event}
        /\ scheduled[th[c1].task] = 1

\* Context c holds a listener on an all_clean_event that was not notified.
WaitsAllClean(c) ==
    /\ th[c].result.kind = "listener"
    /\ th[c].result.note = "all_clean"
    /\ ~th[c].result.woken

\* C6: a listener on all_clean_event handed out by a strongly consistent
\* read is eventually notified: in every run in which the host keeps
\* running the scheduled tasks, from some point on no context holds a
\* listener on an all_clean_event that was not notified.
C6_AllCleanNotified ==
    <>[](\A c \in Contexts : ~WaitsAllClean(c))

\* The listener of a strongly consistent read was notified after the dirty
\* task it waited for was executed, and the CachedActiveUntilClean
\* AggregateRoot the read had added was removed.
C6_Witness ==
    \E c \in Contexts :
        /\ th[c].result.kind = "listener"
        /\ th[c].result.note = "all_clean"
        /\ th[c].result.woken
        /\ storage[th[c].task].AggregateRoot.ty = "None"
        /\ storage[th[c].task].Dirty = "None"
        /\ storage[th[c].task].AggregatedDirtyContainerCount = 0

\* ------------------------------------------------------------------------
\* Part III: properties of task creation
\* ------------------------------------------------------------------------
\* Caller c starts a call in this step.
Creates(c) == create_calls' = create_calls + 1 /\ cr'[c].call = create_calls'

\* Caller c calls get_or_create_transient_task from a task that is not
\* transient in this step.
CallsTransientFromPersistent(c) ==
    /\ Creates(c)
    /\ cr'[c].fn = "get_or_create_transient_task"
    /\ ~is_transient(cr'[c].parent_task)

HandedOut(factory, start) == (start..(factory.next - 1)) \ factory.free

Invalidates(c, t) ==
    /\ th[c].pc = "invalidate"
    /\ t \in th[c].dependent_tasks
    /\ th'[c].dependent_tasks = {}

\* C13: whenever a task is invalidated while its InProgress item is in the
\* InProgress state, the stale flag of the item is set.
C13_InvalidationSetsStale ==
    [][\A c \in Contexts, t \in Tasks :
            Invalidates(c, t) /\ storage[t].InProgress.state = "InProgress"
            => storage'[t].InProgress.stale]_vars

BodyReturns(t) ==
    /\ th[Exec(t)].pc = "running"
    /\ th[Exec(t)].output = NoOutput
    /\ th'[Exec(t)].output # NoOutput

\* C15: when the result of an execution is the value the task's Output
\* holds already, UpdateOutputOperation::run returns early: the Output item is
\* unchanged and no task becomes dirty, the dependents included.
C15_SameOutputReturnsEarly ==
    [][\A t \in Tasks :
        /\ BodyReturns(t)
        /\ th'[Exec(t)].output \in Outputs
        /\ th'[Exec(t)].output = storage[t].Output
        => /\ storage'[t].Output = storage[t].Output
           /\ th'[Exec(t)].pc = "resulted"
           /\ th'[Exec(t)].dependent_tasks = {}
           /\ \A d \in Tasks : storage'[d].Dirty = storage[d].Dirty]_vars

\* An execution that is not stale returned the value of the current Output
\* of a task that has a dependent, and the dependent is not dirty.
C15_Witness ==
    \E t \in Tasks :
        /\ th[Exec(t)].pc = "resulted"
        /\ ~storage[t].InProgress.stale
        /\ th[Exec(t)].output \in Outputs
        /\ th[Exec(t)].output = storage[t].Output
        /\ ~th[Exec(t)].output_written
        /\ \E d \in storage[t].OutputDependent : storage[d].Dirty = "None"

\* The tasks that carry no Dirty item before the step and one after it.
MadeDirty == {u \in Tasks : storage[u].Dirty = "None" /\ storage'[u].Dirty # "None"}

\* What the steps of UpdateOutputOperation for task t do when the result
\* differs from the current output: the step that stores the output takes
\* the OutputDependent and Child items of that moment and makes no task
\* outside own dirty; every later step takes one dependent and leaves it
\* dirty, or one child and leaves it dirty if it has no Output, and makes no
\* other task dirty; the aggregation update makes no task dirty; the
\* operation is Done only when no dependent and no child is left.
UpdateOutputSteps(t, own) ==
    LET ctx == th[Exec(t)]
        nxt == th'[Exec(t)]
    IN /\ BodyReturns(t) /\ nxt.output_written =>
            /\ storage'[t].Output = nxt.output
            /\ nxt.dependent_tasks = storage[t].OutputDependent
            /\ nxt.children = storage[t].Child
            /\ MadeDirty \subseteq own
       /\ ctx.pc = "make_dependent_tasks_dirty" /\ nxt # ctx =>
            \E d \in ctx.dependent_tasks :
                /\ nxt.dependent_tasks = ctx.dependent_tasks \ {d}
                /\ nxt.children = ctx.children
                /\ storage'[d].Dirty # "None"
                /\ MadeDirty \subseteq {d}
       /\ ctx.pc = "ensure_unfinished_children_dirty" /\ nxt # ctx =>
            \E c \in ctx.children :
                /\ nxt.children = ctx.children \ {c}
                /\ nxt.dependent_tasks = {}
                /\ IF storage[c].Output = NoOutput
                   THEN storage'[c].Dirty # "None" /\ MadeDirty \subseteq {c}
                   ELSE MadeDirty = {}
       /\ ctx.output_written /\ ctx.pc = "aggregation" /\ nxt # ctx =>
            MadeDirty = {}
       /\ ctx.output_written /\ nxt # ctx /\ ctx.pc # "resulted"
          /\ (nxt.pc = "resulted" \/ nxt.pc = "aggregation") =>
            nxt.dependent_tasks = {} /\ nxt.children = {}

\* C16, as the claim states it: when the result differs from the current
\* output, UpdateOutputOperation run to Done has made dirty every task that
\* held an OutputDependent edge when the output was stored and every Child
\* that has no Output, and it makes no other task dirty.
C16_OnlyDependentsAndChildrenDirty ==
    [][\A t \in Tasks : UpdateOutputSteps(t, {})]_vars

\* C16, amended: the same, except that the operation also marks the task
\* itself Dirty when it stores the output.
C16_DependentsAndChildrenDirty ==
    [][\A t \in Tasks : UpdateOutputSteps(t, {t})]_vars

\* UpdateOutputOperation is Done for a task whose output changed; it has
\* made the task's dependent dirty.
C16_Witness ==
    \E t \in Tasks :
        /\ th[Exec(t)].pc = "resulted"
        /\ th[Exec(t)].output_written
        /\ storage[t].Dirty = "Dirty"
        /\ \E d \in storage[t].OutputDependent : storage[d].Dirty = "Dirty"

\* C17: a task carries an Error item if and only if its Output is Error or
\* Panic, after every UpdateOutputOperation::run of an execution that is not
\* stale as after every other step; and a try_read_task_output that decides
\* on a task whose Output is Error or Panic returns a listener or the paired
\* error, never a value.
C17_ErrorPairedWithOutput ==
    [][/\ \A t \in Tasks :
            storage'[t].Error <=> storage'[t].Output \in {OutputError, OutputPanic}
       /\ \A c \in Contexts :
            /\ Decides(c)
            /\ storage[th'[c].task].Output \in {OutputError, OutputPanic}
            => th'[c].result.kind \in {"listener", "error"}]_vars

\* A reader got the error of a task whose execution returned an error or
\* panicked.
C17_Witness ==
    \E c \in Contexts :
        /\ th[c].fn = "try_read_task_output"
        /\ th[c].result.kind = "error"
        /\ storage[th[c].task].Output \in {OutputError, OutputPanic}
        /\ storage[th[c].task].Error

\* C18: a completion that is not stale makes the task clean: the step of
\* task_execution_completed that removes the InProgress item leaves the task
\* without InProgress and without Dirty, or with Dirty clean in the session
\* if mark_own_task_as_session_dependent was called during the execution;
\* and when the call returns false every listener on the done_event of the
\* execution has been woken.
C18_CompletionMakesClean ==
    [][\A t \in Tasks :
        LET ctx == th[Exec(t)]
            item == storage[t].InProgress
        IN /\ ctx.pc \in {"cleanup", "complete"} /\ th'[Exec(t)].pc = "notify" =>
                /\ storage'[t].InProgress = NoInProgress
                /\ storage'[t].Dirty =
                        IF item.session_dependent THEN "CleanInSession" ELSE "None"
                /\ th'[Exec(t)].done_event = item.done_event
           /\ ctx.pc = "notify" /\ th'[Exec(t)].pc # "notify" =>
                \A c \in Contexts :
                    ~(/\ th'[c].result.kind = "listener"
                      /\ th'[c].result.event = ctx.done_event
                      /\ ~th'[c].result.woken)]_vars

\* A session dependent execution has completed: the task has no InProgress,
\* its Dirty item is clean in the session, and the reader that was handed a
\* listener on done_event is woken.
C18_Witness ==
    \E t \in Tasks, c \in Contexts :
        /\ th[Exec(t)].pc = "idle"
        /\ storage[t].InProgress = NoInProgress
        /\ storage[t].Dirty = "CleanInSession"
        /\ th[c].result.kind = "listener"
        /\ th[c].result.note = "done"
        /\ th[c].result.event[1] = t
        /\ th[c].result.woken

\* C20: right after try_start_task_execution has moved a task from Scheduled
\* to InProgress, the Outdated shadows are exactly the current edges: every
\* Child, OutputDependency, CellDependency and CollectiblesDependency has
\* its Outdated item, and no Outdated item is without its current
\* counterpart.
C20_StartMakesEdgesOutdated ==
    [][\A t \in Tasks :
        /\ storage[t].InProgress.state = "Scheduled"
        /\ storage'[t].InProgress.state = "InProgress"
        => /\ storage'[t].OutdatedChild = storage'[t].Child
           /\ storage'[t].OutdatedOutputDependency = storage'[t].OutputDependency
           /\ storage'[t].OutdatedCellDependency = storage'[t].CellDependency
           /\ storage'[t].OutdatedCollectiblesDependency =
                    storage'[t].CollectiblesDependency]_vars

\* The step of task_execution_completed(t) that is not stale: it handles the
\* cell counters and collects the outdated edges.
CompletesNotStale(t) ==
    /\ th[Exec(t)].pc = "resulted"
    /\ th'[Exec(t)].pc \in {"cleanup", "complete"}

\* C19: cell-type shrink. After the step of a task_execution_completed that
\* is not stale, CellTypeMaxIndex is the counter given by the execution
\* (absent if it gave none), no CellData is left above it, and every reader
\* that held a CellDependent edge on a cell above it is among the edges
\* handed to CleanupOldEdgesOperation as a RemovedCellDependent.
C19_CellTypeShrink ==
    [][\A t \in Tasks :
        CompletesNotStale(t) =>
            LET max_index == storage'[t].CellTypeMaxIndex
            IN /\ max_index \in CellCounters(t)
               /\ \A cell \in storage'[t].CellData :
                    max_index # NoMaxIndex /\ cell <= max_index
               /\ \A d \in storage[t].CellDependent :
                    (max_index = NoMaxIndex \/ d[1] > max_index)
                    => OutdatedEdge("RemovedCellDependent", d[2], 0)
                            \in th'[Exec(t)].old_edges]_vars

\* A completion has lowered the cell counter of a task, and a reader of a
\* cell above the new counter is about to be invalidated.
C19_Witness ==
    \E t \in Tasks, r \in Tasks :
        /\ th[Exec(t)].pc = "cleanup"
        /\ OutdatedEdge("RemovedCellDependent", r, 0) \in th[Exec(t)].old_edges
        /\ \E d \in storage[t].CellDependent :
            /\ d[2] = r
            /\ d[1] \notin storage[t].CellData
            /\ storage[t].CellTypeMaxIndex # NoMaxIndex
            /\ d[1] > storage[t].CellTypeMaxIndex

\* The body of task p has returned from the call fn and has made no other
\* call since.
LastCall(p, fn) ==
    /\ storage[p].InProgress.state = "InProgress"
    /\ th[Exec(p)].pc = "running"
    /\ th[Exec(p)].fn = fn

\* C21: an edge that the running execution has established again is not in
\* the Outdated shadow set any more: the child the body has just connected,
\* the output or cell it has just read, the task whose collectibles it has
\* just read.
C21_ReestablishedEdgeNotOutdated ==
    \A p \in Tasks :
        LET ctx == th[Exec(p)]
            got == ctx.result.kind \in {"value", "error"}
        IN /\ LastCall(p, "connect_child") =>
                ctx.task \notin storage[p].OutdatedChild
           /\ LastCall(p, "try_read_task_output") /\ got =>
                ctx.task \notin storage[p].OutdatedOutputDependency
           /\ LastCall(p, "try_read_task_cell") /\ got =>
                <<ctx.task, ctx.cell>> \notin storage[p].OutdatedCellDependency
           /\ LastCall(p, "read_task_collectibles") /\ got =>
                ctx.task \notin storage[p].OutdatedCollectiblesDependency

\* The tasks that task u reads: the targets of its dependency edges, those
\* of the previous execution included.
Reads(u) ==
    storage[u].OutputDependency \cup storage[u].OutdatedOutputDependency
    \cup {d[1] : d \in storage[u].CellDependency \cup storage[u].OutdatedCellDependency}

\* The tasks that are not dirty in the session before the step and dirty
\* after it.
BecameDirty ==
    {u \in Tasks : ~is_dirty_in_session(storage[u]) /\ is_dirty_in_session(storage'[u])}

RECURSIVE ChildClosure(_, _)
ChildClosure(S, n) ==
    IF n = 0 THEN S
    ELSE ChildClosure(S \cup UNION {storage[x].Child : x \in S}, n - 1)

\* The descendants of a task: its children and their descendants.
Descendants(r) == ChildClosure(storage[r].Child, NumTasks)

DataUpdates(q, t) == Cardinality({k \in 1..Len(q) : q[k] = DataUpdate(t)})

\* C25: marking a task dirty is idempotent. The step of an
\* InvalidateOperation that runs make_task_dirty on a task that carries
\* Dirty changes no item of the task and pushes no job for it; on a task
\* without Dirty it inserts Dirty and pushes exactly one DataUpdate. And
\* however often a task was invalidated, no upper holds it more than once
\* in its dirty containers, whose count is the number of tasks held.
C25_MakeDirtyIdempotent ==
    /\ [][\A c \in Contexts, t \in Tasks :
            Invalidates(c, t) =>
                IF storage[t].Dirty # "None"
                THEN /\ storage'[t] = storage[t]
                     /\ DataUpdates(th'[c].queue, t) = 0
                ELSE /\ storage'[t] = [storage[t] EXCEPT !.Dirty = "Dirty"]
                     /\ DataUpdates(th'[c].queue, t) = 1]_vars
    /\ [](\A u \in Tasks :
            storage[u].AggregatedDirtyContainerCount =
                Cardinality(storage[u].AggregatedDirtyContainer))

\* After the second call or a later one, an InvalidateOperation of a thread
\* is Done for a task that is dirty and waits to be executed, and an upper
\* counts the task once.
C25_Witness ==
    \E i \in Threads, t \in Tasks, r \in Tasks :
        /\ th[i].fn = "invalidate_task"
        /\ th[i].task = t
        /\ th[i].pc = "idle"
        /\ calls >= 2
        /\ storage[t].Dirty = "Dirty"
        /\ storage[t].InProgress.state = "Scheduled"
        /\ t \in storage[r].AggregatedDirtyContainer
        /\ storage[r].AggregatedDirtyContainerCount = 1

\* The body of t calls update_task_cell in this step (a repeated call that
\* changes nothing but the count of calls is left out).
UpdatesCell(t) ==
    /\ calls' = calls + 1
    /\ th'[Exec(t)].fn = "update_task_cell"
    /\ th'[Exec(t)] # th[Exec(t)]

\* C26: UpdateCellOperation invalidates precisely. If the cell had no
\* content and the task carries no Dirty item, the operation returns and no
\* task becomes dirty; otherwise it runs an InvalidateOperation on exactly
\* the tasks that hold a CellDependent edge on the cell updated, and that
\* operation marks those tasks and no other.
C26_UpdateCellInvalidatesReaders ==
    [][\A t \in Tasks :
        /\ UpdatesCell(t) =>
            LET cell == th'[Exec(t)].cell
                recomputed == cell \notin storage[t].CellData
                                /\ storage[t].Dirty = "None"
            IN IF recomputed
               THEN /\ th'[Exec(t)].pc = "running"
                    /\ \A u \in Tasks : storage'[u].Dirty = storage[u].Dirty
               ELSE /\ th'[Exec(t)].pc = "invalidate"
                    /\ \A r \in Tasks :
                        r \in th'[Exec(t)].dependent_tasks
                            <=> <<cell, r>> \in storage[t].CellDependent
        /\ th[Exec(t)].pc = "invalidate" /\ th'[Exec(t)].pc # "invalidate" =>
            /\ \A u \in th[Exec(t)].dependent_tasks : storage'[u].Dirty # "None"
            /\ BecameDirty \subseteq th[Exec(t)].dependent_tasks]_vars

\* The body of a task has updated a cell that had content and no reader,
\* while another cell of the task has a reader: the InvalidateOperation is
\* run on no task.
C26_Witness ==
    \E t \in Tasks :
        /\ th[Exec(t)].fn = "update_task_cell"
        /\ th[Exec(t)].pc = "invalidate"
        /\ th[Exec(t)].dependent_tasks = {}
        /\ \E d \in storage[t].CellDependent : d[1] # th[Exec(t)].cell

\* The body of p calls connect_child in this step (a repeated call that
\* changes nothing but the count of calls is left out).
ConnectsChild(p) ==
    /\ calls' = calls + 1
    /\ th'[Exec(p)].fn = "connect_child"
    /\ th'[Exec(p)] # th[Exec(p)]

\* C27: ConnectChildOperation schedules the child only if it is new.
\* Connecting a child the parent already has changes no item, pushes no
\* aggregation job and schedules nothing; and the ScheduleTask step of a
\* connect leaves a child alone that is already Scheduled or InProgress or
\* has an Output: no InProgress item is added and schedule is not called.
C27_ConnectSchedulesNewChildOnly ==
    [][\A p \in Tasks :
        /\ ConnectsChild(p) /\ th'[Exec(p)].task \in storage[p].Child =>
            /\ storage' = storage
            /\ scheduled' = scheduled
            /\ th'[Exec(p)].pc = "running"
            /\ th'[Exec(p)].queue = <<>>
        /\ th[Exec(p)].pc = "connect_schedule"
           /\ th'[Exec(p)].pc # "connect_schedule" =>
            LET c == th[Exec(p)].child
            IN has_in_progress(storage[c]) \/ storage[c].Output # NoOutput =>
                /\ scheduled'[c] = scheduled[c]
                /\ storage'[c].InProgress = storage[c].InProgress]_vars

ReadsSucceed(i, j) == \A k \in (i + 1)..j : sessions[k].read_ok

C29_CacheFileWithinLimit == FileSize(cache_file) <= CACHE_SIZE_LIMIT

\* ------------------------------------------------------------------------
\* Part I: liveness of the snapshot barrier
\* ------------------------------------------------------------------------
\* Positions of snapshot() in its wait on operations_suspended.
SnapshotWaits == {"wait_check", "wait_park", "wait_parked", "wait_woken"}

\* C30: under fair scheduling a snapshot() that waits on
\* operations_suspended leaves the wait and completes, and every operation
\* blocked in start_operation or parked in operation_suspend_point is
\* released.
C30_SnapshotBarrierLiveness ==
    /\ (sn_pc \in SnapshotWaits) ~> (sn_pc = "idle")
    /\ \A w \in Workers :
        (pc[w] \in {"so_parked", "sp_parked"})
            ~> (pc[w] \notin {"so_parked", "so_woken", "sp_parked", "sp_woken"})

\* ------------------------------------------------------------------------
\* Part I: replay of persisted operations
\* ------------------------------------------------------------------------
\* The record an operation writes in state k: run() in state 0, one loop
\* state of execute() in each later state.
RecordOf(o, k) == <<o.id, IF k = 0 THEN "meta" ELSE "data", k>>

\* The records an operation writes when it runs from state `from` to Done.
RecordsFrom(o, from) == {RecordOf(o, k) : k \in from..(Done - 1)}

\* The records of operation o in the storage after a crash, recovery from the
\* last saved snapshot and startup, which executes the persisted value of o
\* from its state to Done.
ReplayedRecords(o) ==
    {rec \in persisted_records : rec[1] = o.id /\ rec[2] \in {"meta", "data"}}
        \cup RecordsFrom(o, o.state)

\* C24: whenever the process crashes after a snapshot, resuming a persisted
\* operation on the recovered storage leaves what running the operation
\* once from its first state to Done leaves.
C24_IdempotentReplay ==
    \A o \in persisted_operations :
        o.persistent => ReplayedRecords(o) = RecordsFrom(o, 0)

\* ------------------------------------------------------------------------
\* Part II: properties of completion, start and the operations
\* ------------------------------------------------------------------------
\* The step in which task_execution_completed takes the InProgress item of t
\* out of the InProgress state.
Completes(t) ==
    /\ storage[t].InProgress.state = "InProgress"
    /\ storage'[t].InProgress.state # "InProgress"

invalidate_tasks(i, tasks) ==
    /\ CanCall(i)
    /\ calls' = calls + 1
    /\ th' = [th EXCEPT ![i] =
                [Call(i, "invalidate_tasks", NoTask, 0, "Eventual") EXCEPT
                    !.pc = "invalidate", !.dependent_tasks = tasks]]
    /\ UNCHANGED <<storage, scheduled, events>>
    /\ barrier_unchanged

\* The runs of the three operations: tasks read outputs, connect children,
\* return results and are invalidated one at a time or several at once.
NextOperations ==
    \/ \E c \in Contexts, t \in Tasks :
            try_read_task_output(c, t, "Eventual")
    \/ \E c \in Contexts : try_read_task_output_dependency(c)
    \/ \E i \in Threads, t \in Tasks : invalidate_task(i, t)
    \/ \E i \in Threads, tasks \in SUBSET Tasks : invalidate_tasks(i, tasks)
    \/ \E c \in Contexts : invalidate_make_dirty(c)
    \/ \E c \in Contexts : aggregation_update(c)
    \/ \E t \in Tasks : try_start_task_execution(t)
    \/ \E p, c \in Tasks : connect_child(p, c)
    \/ \E p \in Tasks : connect_child_schedule_task(p)
    \/ \E t \in Tasks, output \in Outputs : task_execution_result(t, output)
    \/ \E t \in Tasks : update_output_make_dependent_tasks_dirty(t)
    \/ \E t \in Tasks : update_output_ensure_unfinished_children_dirty(t)
    \/ \E t \in Tasks, max_index \in {NoMaxIndex} \cup CellIndexes,
          indexed \in BOOLEAN :
            task_execution_completed(t, max_index, indexed)
    \/ \E t \in Tasks : cleanup_old_edges(t)
    \/ \E t \in Tasks : task_execution_completed_finish(t)
    \/ \E t \in Tasks : task_execution_completed_notify(t)

SpecOperations == Init /\ [][NextOperations]_vars

\* The states of the three operations in the order of their declaration:
\* the per-task passes, the aggregation update, ScheduleTask; every other
\* position of a context is Done.
OperationStates ==
    {"invalidate", "make_dependent_tasks_dirty",
     "ensure_unfinished_children_dirty", "aggregation", "connect_schedule"}

OperationRank(ctx) ==
    CASE ctx.pc \in {"invalidate", "make_dependent_tasks_dirty"} -> 0
      [] ctx.pc = "ensure_unfinished_children_dirty" -> 1
      [] ctx.pc = "aggregation" -> 2
      [] ctx.pc = "connect_schedule" -> 3
      [] OTHER -> 4

\* The step of context c is a per-task pass of its operation.
TaskPass(c) ==
    /\ th[c].pc \in {"invalidate", "make_dependent_tasks_dirty",
                     "ensure_unfinished_children_dirty"}
    /\ th'[c] # th[c]

\* C32: a step of an operation never returns to an earlier state of the
\* operation, and a per-task pass between two suspend points visits (changes
\* the items of) at most one task; a pass over an empty list moves on.
C32_OperationsMoveForward ==
    [][\A c \in Contexts :
        /\ th[c].pc \in OperationStates /\ th'[c].pc \in OperationStates
              => OperationRank(th'[c]) >= OperationRank(th[c])
        /\ TaskPass(c)
              => Cardinality({t \in Tasks : storage'[t] # storage[t]}) <= 1]_vars

\* ------------------------------------------------------------------------
\* Part II: the start of executions, with Once tasks and with calls of
\* try_start_task_execution while an execution is in flight
\* ------------------------------------------------------------------------
\* create_transient_task(TransientTaskType::Once): AggregateRoot of type
\* OnceTask
create_transient_task_once(root_event, done_event) ==
    [create_transient_task(root_event, done_event) EXCEPT
        !.AggregateRoot = RootState("OnceTask", root_event)]

\* Task 1 was created by create_transient_task as a Root or as a Once task.
InitStart ==
    /\ InitBarrier /\ InitCreate /\ InitSession /\ InitCache /\ InitSave
    /\ budget = MaxCalls
    /\ transient_tasks \in [Tasks -> {"None", "Root", "Once"}]
    /\ \A t \in Tasks : transient_tasks[t] # "None" <=> t = 1
    /\ storage \in [Tasks -> {create_transient_task(Event(1, 1), Event(1, 2)),
                              create_transient_task_once(Event(1, 1), Event(1, 2)),
                              EmptyTask, RestoredTask}]
    /\ \A t \in Tasks :
          /\ storage[t].AggregateRoot.ty = "RootTask" <=> transient_tasks[t] = "Root"
          /\ storage[t].AggregateRoot.ty = "OnceTask" <=> transient_tasks[t] = "Once"
    /\ th = [c \in Contexts |-> IdleContext]
    /\ scheduled = [t \in Tasks |-> IF t = 1 THEN 1 ELSE 0]
    /\ events = [t \in Tasks |-> IF t = 1 THEN 2 ELSE 0]
    /\ calls = 0

\* An execution of task t is in flight: try_start_task_execution handed it
\* out and task_execution_completed has not yet removed the InProgress item
\* (the notification of done_event and the aggregation update that end
\* task_execution_completed come after the removal).
ExecutionInFlight(t) ==
    LET ctx == th[Exec(t)]
    IN /\ ctx.pc \notin {"idle", "notify"}
       /\ ~(ctx.pc = "aggregation" /\ ctx.then = "idle")

\* A variant that starts a task whatever state its InProgress item is in.
is_scheduled_or_in_progress(task) == task.InProgress.state # "None"

\* let InProgressState::Scheduled { done_event } = in_progress
is_scheduled(task) == task.InProgress.state = "Scheduled"

\* take(&mut *future_mutex.lock()) is Some; a Root task makes a new future
\* with every call, a cached task makes it from its function
take_future(transient_task) == transient_task \in {"None", "Root", "Once"}

\* try_start_task_execution as any caller may call it for a scheduled task:
\* a cached task (lookup_task_type) or a transient task. The items are
\* changed before the future is made; a Once task hands its future out once.
\* The caller does not wait for an execution in flight; it waits for the
\* tail of task_execution_completed, which runs on the same worker.
try_start_task_execution_transient(t) ==
    /\ scheduled[t] > 0
    /\ th[Exec(t)].pc = "idle" \/ ExecutionInFlight(t)
    /\ scheduled' = [scheduled EXCEPT ![t] = @ - 1]
    /\ IF is_scheduled(storage[t])
       THEN /\ storage' = [storage EXCEPT ![t] = start_execution_items(@)]
            /\ IF take_future(transient_tasks[t])
               THEN th' = [th EXCEPT ![Exec(t)] =
                              [IdleContext EXCEPT !.pc = "running"]]
               ELSE UNCHANGED th
            /\ transient_tasks' = [transient_tasks EXCEPT ![t] =
                                      IF @ = "Once" THEN "Taken" ELSE @]
       ELSE UNCHANGED <<storage, th, transient_tasks>>
    /\ UNCHANGED <<events, calls>>
    /\ UNCHANGED <<barrier_vars, create_vars, budget, session_vars, cache_vars,
                   save_vars>>

\* turbo_tasks.schedule(task_id) by any caller: a further call of
\* try_start_task_execution for the task is due.
schedule_task(i, t) ==
    /\ CanCall(i)
    /\ calls' = calls + 1
    /\ scheduled' = schedule(scheduled, t)
    /\ th' = [th EXCEPT ![i] = Call(i, "schedule", t, 0, "Eventual")]
    /\ UNCHANGED <<storage, events>>
    /\ barrier_unchanged

\* The runs of tasks that read outputs, connect children, return results and
\* are invalidated and scheduled, started by
\* try_start_task_execution_transient.
NextStart ==
    \/ \E i \in Threads, t \in Tasks : schedule_task(i, t)
    \/ \E c \in Contexts, t \in Tasks :
            try_read_task_output(c, t, "Eventual")
    \/ \E c \in Contexts : try_read_task_output_dependency(c)
    \/ \E i \in Threads, t \in Tasks : invalidate_task(i, t)
    \/ \E c \in Contexts : invalidate_make_dirty(c)
    \/ \E c \in Contexts : aggregation_update(c)
    \/ \E t \in Tasks : try_start_task_execution_transient(t)
    \/ \E p, c \in Tasks : connect_child(p, c)
    \/ \E p \in Tasks : connect_child_schedule_task(p)
    \/ \E t \in Tasks, output \in Outputs : task_execution_result(t, output)
    \/ \E t \in Tasks : update_output_make_dependent_tasks_dirty(t)
    \/ \E t \in Tasks : update_output_ensure_unfinished_children_dirty(t)
    \/ \E t \in Tasks : task_execution_completed(t, NoMaxIndex, FALSE)
    \/ \E t \in Tasks : cleanup_old_edges(t)
    \/ \E t \in Tasks : task_execution_completed_finish(t)
    \/ \E t \in Tasks : task_execution_completed_notify(t)

SpecStart == InitStart /\ [][NextStart]_vars

\* The step is a call of try_start_task_execution for t.
TryStarts(t) == scheduled'[t] = scheduled[t] - 1

\* C33: a call of try_start_task_execution for a task whose InProgress item
\* is not in the Scheduled state returns no execution and leaves the item as
\* it is; a call that finds it Scheduled moves it to InProgress; and while an
\* execution is in flight, the cleanup of outdated edges included, the item
\* is in the InProgress state. So of any number of calls at most one returns
\* an execution until task_execution_completed has removed the item.
C33_OneExecutionInFlight ==
    [][\A t \in Tasks :
        /\ TryStarts(t) /\ storage[t].InProgress.state # "Scheduled"
              => /\ th'[Exec(t)] = th[Exec(t)]
                 /\ storage'[t].InProgress = storage[t].InProgress
        /\ TryStarts(t) /\ storage[t].InProgress.state = "Scheduled"
              => storage'[t].InProgress.state = "InProgress"
        /\ ExecutionInFlight(t)'
              => storage'[t].InProgress.state = "InProgress"]_vars

\* A further call of try_start_task_execution for t is due while
\* CleanupOldEdgesOperation of its execution is under way.
C33_Witness ==
    \E t \in Tasks :
        /\ th[Exec(t)].pc = "cleanup"
        /\ storage[t].InProgress.state = "InProgress"
        /\ scheduled[t] > 0

\* The call of try_start_task_execution for t returns None: no execution
\* starts.
ReturnsNone(t) == TryStarts(t) /\ th'[Exec(t)] = th[Exec(t)]

\* C34: a call of try_start_task_execution that returns None leaves the
\* items of the task as they were (a task without InProgress, a task in the
\* InProgress state, a Once task whose future was taken).
C34_NoneChangesNothing ==
    [][\A t \in Tasks : ReturnsNone(t) => storage'[t] = storage[t]]_vars

\* Part I: the assertion of operation_suspend_point
\* The low bits of in_progress_operations: the count of live operations.
LowBits(v) == v % SNAPSHOT_REQUESTED_BIT

\* The operation of worker w is counted in in_progress_operations: its
\* fetch_add is done and neither a fetch_sub of a suspension nor the one of
\* the OperationGuard has taken it out.
Counted(w) == pc[w] \in {"so_lock", "run", "sp_check", "sp_lock", "step", "drop"}

\* C35: whenever a thread can take the snapshot_request mutex and finds
\* snapshot_requested = true, the SNAPSHOT_REQUESTED_BIT of
\* in_progress_operations is set, and the low bits count exactly the
\* operations that incremented and have not decremented the counter; so the
\* fetch_sub(1) of a suspending operation leaves the bit set (the assertion
\* holds) and no decrement takes the low bits below zero.
C35_SuspendPointAssertion ==
    /\ snapshot_requested /\ lock_owner = NoOwner
          => in_progress_operations \div SNAPSHOT_REQUESTED_BIT = 1
    /\ LowBits(in_progress_operations) = Cardinality({w \in Workers : Counted(w)})

\* An operation is suspended at its suspend point: it held the mutex, saw
\* snapshot_requested, decremented the counter and passed the assertion,
\* while another operation is still counted.
C35_Witness ==
    \E w, v \in Workers :
        /\ pc[w] = "sp_parked"
        /\ Counted(v)
        /\ snapshot_requested
        /\ in_progress_operations = SNAPSHOT_REQUESTED_BIT + 1

\* Part II: the InProgress item of a task that is read
\* C36: when try_read_task_output reaches task.add_new(InProgress::Scheduled)
\* the task has no InProgress item, so the add_new never finds the item
\* present (the read never ends in the panic of add_new), also after a
\* strongly consistent read gave up and took the task lock again.
C36_AddNewFindsNoInProgress ==
    [][\A c \in Contexts :
        th'[c].fn = "try_read_task_output" /\ th'[c] # th[c]
            => th'[c].result # Panic]_vars

\* ------------------------------------------------------------------------
\* Part II: the outdated edges of tasks that emitted collectibles
\* ------------------------------------------------------------------------
\* Collectibles a task emits.
NumCollectibles == 1
Collectibles == 1..NumCollectibles

\* A cached task that emitted collectibles in an earlier run.
RestoredTaskWithCollectibles(collectibles) ==
    [RestoredTask EXCEPT !.Collectible = collectibles]

\* Task 1 was created by create_transient_task; every other task is unknown
\* so far or restored, with or without collectibles.
InitOldEdges ==
    /\ InitBarrier /\ InitCreate /\ InitSession /\ InitCache /\ InitTransient
    /\ InitSave
    /\ budget = MaxCalls
    /\ storage \in [Tasks -> {create_transient_task(Event(1, 1), Event(1, 2)),
                              EmptyTask}
                             \cup {RestoredTaskWithCollectibles(collectibles) :
                                      collectibles \in SUBSET Collectibles}]
    /\ \A t \in Tasks : has_root_task(storage[t]) <=> t = 1
    /\ th = [c \in Contexts |-> IdleContext]
    /\ scheduled = [t \in Tasks |-> IF t = 1 THEN 1 ELSE 0]
    /\ events = [t \in Tasks |-> IF t = 1 THEN 2 ELSE 0]
    /\ calls = 0

\* The runs of tasks that read outputs, connect children and are invalidated
\* and recomputed, in either representation of the storage.
NextOldEdges ==
    \/ \E c \in Contexts, t \in Tasks :
            try_read_task_output(c, t, "Eventual")
    \/ \E c \in Contexts : try_read_task_output_dependency(c)
    \/ \E i \in Threads, t \in Tasks : invalidate_task(i, t)
    \/ \E c \in Contexts : invalidate_make_dirty(c)
    \/ \E c \in Contexts : aggregation_update(c)
    \/ \E t \in Tasks : try_start_task_execution(t)
    \/ \E p, c \in Tasks : connect_child(p, c)
    \/ \E p \in Tasks : connect_child_schedule_task(p)
    \/ \E t \in Tasks, output \in Outputs : task_execution_result(t, output)
    \/ \E t \in Tasks : update_output_make_dependent_tasks_dirty(t)
    \/ \E t \in Tasks : update_output_ensure_unfinished_children_dirty(t)
    \/ \E t \in Tasks, max_index \in {NoMaxIndex} \cup CellIndexes,
          indexed \in BOOLEAN :
            task_execution_completed(t, max_index, indexed)
    \/ \E t \in Tasks : cleanup_old_edges(t)
    \/ \E t \in Tasks : task_execution_completed_finish(t)
    \/ \E t \in Tasks : task_execution_completed_notify(t)

SpecOldEdges == InitOldEdges /\ [][NextOldEdges]_vars

\* C37: when task_execution_completed collects the outdated edges of a
\* task, the scan of the indexed storage and the scan of all items give the
\* same set of OutdatedEdge values, whatever cells were removed.
C37_SameOutdatedEdges ==
    [][\A t \in Tasks :
        /\ th[Exec(t)].pc = "resulted"
        /\ th'[Exec(t)].pc \in {"cleanup", "complete"}
        => \A removed \in SUBSET CellIndexes :
              outdated_edges(storage[t], removed, TRUE)
                  = outdated_edges(storage[t], removed, FALSE)]_vars

\* Part V: the values read through the startup cache layer
\* C38: on a database that is not fresh, get returns for every key what the
\* database holds for it, also after a committed write batch put or deleted
\* a key that the restored cache file holds.
C38_CacheLayerTransparent ==
    ~fresh_db => \A key \in CacheKeys : startup_cache_get_value(key) = database[key]

\* ------------------------------------------------------------------------
\* Part VI: save_snapshot and the logs of task data updates
\* ------------------------------------------------------------------------
save_unchanged ==
    UNCHANGED <<barrier_vars, task_vars, create_vars, session_vars, cache_vars,
                transient_tasks>>

\* The shard of the log that holds the records of a task.
shard_of(task) == ((task - 1) % NumShards) + 1

CachedDataUpdate(task, key, value, old_value) ==
    [task |-> task, key |-> key, value |-> value, old_value |-> old_value]

\* A mutation inside an ExecuteContext::task(id, category) borrow: the item is
\* replaced and a CachedDataUpdate record is appended to the log shard of the
\* category. A None -> None update is suppressed.
task_update(category, task, key, value) ==
    /\ save_calls.updates < MaxUpdates
    /\ LET old_value == task_items[category][task][key]
       IN /\ ~(old_value = NoItem /\ value = NoItem)
          /\ task_items' = [task_items EXCEPT ![category][task][key] = value]
          /\ persisted_storage_log' =
                [persisted_storage_log EXCEPT ![category][shard_of(task)] =
                    Append(@, CachedDataUpdate(task, key, value, old_value))]
    /\ save_calls' = [save_calls EXCEPT !.updates = @ + 1]
    /\ UNCHANGED <<task_db, put_tasks>>
    /\ save_unchanged

\* An absent entry of OrganizedTaskData.
NoEntry == [present |-> FALSE, old_value |-> NoItem, value |-> NoItem]

NoTaskUpdates == [task \in SaveTasks |-> [key \in ItemKeys |-> NoEntry]]

\* organize_task_data, the loop over the records of one shard: an occupied
\* entry keeps its old value and takes the value of the record, a vacant entry
\* takes (old_value, value).
RECURSIVE organize_updates(_, _)
organize_updates(task_updates, updates) ==
    IF updates = <<>> THEN task_updates
    ELSE LET update == Head(updates)
             entry == task_updates[update.task][update.key]
         IN organize_updates(
                [task_updates EXCEPT ![update.task][update.key] =
                    IF entry.present
                    THEN [entry EXCEPT !.value = update.value]
                    ELSE [present |-> TRUE, old_value |-> update.old_value,
                          value |-> update.value]],
                Tail(updates))

\* organize_task_data, task_updates.retain: an entry whose old value equals
\* its value is dropped; a task without entries is dropped.
retain_changed(task_updates) ==
    [task \in SaveTasks |->
        [key \in ItemKeys |->
            LET entry == task_updates[task][key]
            IN IF entry.present /\ entry.old_value # entry.value
               THEN entry ELSE NoEntry]]

\* organize_task_data: every shard is organized on its own.
organize_task_data(updates) ==
    [shard \in DOMAIN updates |->
        retain_changed(organize_updates(NoTaskUpdates, updates[shard]))]

\* The task is a key of the organized data of a shard.
has_task_updates(task_updates, task) ==
    \E key \in ItemKeys : task_updates[task][key].present

\* restore_task_data: for every task of every shard, the stored items with the
\* organized updates applied: Some(value) is inserted, None removes the key.
restore_task_data(db, task_updates) ==
    {<<st[2], [key \in ItemKeys |->
                  LET entry == task_updates[st[1]][st[2]][key]
                  IN IF entry.present THEN entry.value ELSE db[st[2]][key]]>> :
        st \in {x \in Shards \X SaveTasks : has_task_updates(task_updates[x[1]], x[2])}}

\* serialize_task_data: when the item vector does not serialize, the optional
\* items that do not serialize are left out of it.
serialize_task_data(tasks) ==
    {<<tv[1], [key \in ItemKeys |-> IF tv[2][key] = 2 THEN NoItem ELSE tv[2][key]]>> :
        tv \in tasks}

\* save_snapshot, the items put for one database.
save_task_items(db, updates) ==
    serialize_task_data(restore_task_data(db, organize_task_data(updates)))

\* save_snapshot: tx.put(db, task_id, value) for every (task_id, value).
put_task_items(db, task_items_result) ==
    [task \in SaveTasks |->
        IF \E tv \in task_items_result : tv[1] = task
        THEN (CHOOSE tv \in task_items_result : tv[1] = task)[2]
        ELSE db[task]]

NoLog == [category \in SaveCategories |-> [shard \in Shards |-> <<>>]]

\* snapshot: the logs are taken; if one is non-empty, save_snapshot is called
\* with them. On Ok the transaction with the puts is committed; on Err
\* snapshot returns None and the taken logs are dropped.
snapshot_task_data(save_ok) ==
    /\ save_calls.saves < MaxSaves
    /\ persisted_storage_log # NoLog
    /\ persisted_storage_log' = NoLog
    /\ IF save_ok
       THEN /\ task_db' =
                  [category \in SaveCategories |->
                      put_task_items(task_db[category],
                          save_task_items(task_db[category],
                                          persisted_storage_log[category]))]
            /\ put_tasks' =
                  UNION {{<<category, tv[1]>> :
                             tv \in save_task_items(task_db[category],
                                                    persisted_storage_log[category])} :
                         category \in SaveCategories}
       ELSE /\ UNCHANGED task_db
            /\ put_tasks' = {}
    /\ save_calls' = [save_calls EXCEPT !.saves = @ + 1,
                        !.last = IF save_ok THEN "ok" ELSE "err"]
    /\ UNCHANGED task_items
    /\ save_unchanged

\* The store of an earlier session: every task has the same stored items,
\* restored into memory.
InitSaveStored ==
    /\ InitBarrier /\ InitStorage /\ InitCreate /\ InitSession /\ InitCache
    /\ InitTransient
    /\ budget = MaxCalls
    /\ \E stored \in [ItemKeys -> {NoItem, 1}] :
          task_db = [category \in SaveCategories |-> [task \in SaveTasks |-> stored]]
    /\ task_items = task_db
    /\ persisted_storage_log = NoLog
    /\ put_tasks = {}
    /\ save_calls = [updates |-> 0, saves |-> 0, last |-> "none"]

NextSave ==
    \/ \E category \in SaveCategories, task \in SaveTasks, key \in ItemKeys,
          value \in ItemValues \cup {NoItem} :
            task_update(category, task, key, value)
    \/ \E save_ok \in BOOLEAN : snapshot_task_data(save_ok)

SpecSave == InitSaveStored /\ [][NextSave]_vars

\* The records of a task in a log shard, in log order.
TaskRecords(category, task) ==
    SelectSeq(persisted_storage_log[category][shard_of(task)],
              LAMBDA update : update.task = task)

\* The items with the records applied in order: the last value per key wins,
\* a None value removes the key.
RECURSIVE ApplyRecords(_, _)
ApplyRecords(items, records) ==
    IF records = <<>> THEN items
    ELSE ApplyRecords([items EXCEPT ![Head(records).key] = Head(records).value],
                      Tail(records))

\* The records of the task cancel out: for every key with records the first
\* old value equals the last value.
CancelOut(category, task) ==
    /\ TaskRecords(category, task) # <<>>
    /\ \A key \in ItemKeys :
          LET records == SelectSeq(TaskRecords(category, task),
                                   LAMBDA update : update.key = key)
          IN records = <<>> \/ records[1].old_value = records[Len(records)].value

\* A step of snapshot in which save_snapshot returned Ok.
Saved == save_calls'.saves = save_calls.saves + 1 /\ save_calls'.last = "ok"

\* C39: save_snapshot persists the net effect of the log: for every task and
\* category the item set stored after save_snapshot is the item set stored
\* before it with the log records of the task applied in log order, and a task
\* whose records cancel out is not put.
C39_NetEffectPersisted ==
    [][Saved =>
        \A category \in SaveCategories, task \in SaveTasks :
            /\ task_db'[category][task] =
                  ApplyRecords(task_db[category][task], TaskRecords(category, task))
            /\ CancelOut(category, task) => <<category, task>> \notin put_tasks']_vars

\* C40: UpdateCellOperation always wakes waiting readers: after it has run
\* for a cell, the task has no InProgressCell item for the cell and every
\* listener that try_read_task_cell registered on the event of that item is
\* notified, whether or not the operation goes on to invalidate dependents
\* and whether the new content is present or empty.
C40_UpdateCellWakesReaders ==
    [][\A t \in Tasks :
        UpdatesCell(t) =>
            LET cell == th'[Exec(t)].cell
            IN /\ storage'[t].InProgressCell[cell] = {}
               /\ \A c \in Contexts :
                    (th[c].result.kind = "listener"
                        /\ th[c].result.event \in storage[t].InProgressCell[cell])
                    => th'[c].result.kind = "listener" /\ th'[c].result.woken]_vars

\* The body of a task has updated a cell to empty content and returned
\* without invalidating; a reader that waited for the cell is notified and
\* the task has no InProgressCell item for the cell.
C40_Witness ==
    \E t \in Tasks, c \in Contexts :
        /\ th[Exec(t)].fn = "update_task_cell"
        /\ th[Exec(t)].pc = "running"
        /\ th[c].fn = "try_read_task_cell"
        /\ th[c].task = t
        /\ th[c].cell = th[Exec(t)].cell
        /\ th[c].result.kind = "listener"
        /\ th[c].result.note = "cell"
        /\ th[c].result.woken
        /\ storage[t].InProgressCell[th[c].cell] = {}
        /\ th[c].cell \notin storage[t].CellData

====
